---- MODULE Spec2Model ----
(***************************************************************************)
(* Model of marinade-finance/ledger-utils: the wallet-URL parser           *)
(* (parseWalletUrl), the derivation-path combinatorics                     *)
(* (generateAllCombinations, getHeuristicDepthAndWide) and the Ledger path *)
(* resolver (LedgerWallet.getSolanaApi, searchDerivedPathFromPubkey,       *)
(* openTransports).                                                        *)
(*                                                                         *)
(* A JavaScript string is a sequence of one-character strings, so that     *)
(* trimming, splitting, joining and the regular expressions of the source  *)
(* are computed character by character.                                    *)
(***************************************************************************)
EXTENDS Integers, Sequences, FiniteSets, TLC

(***************************************************************************)
(* Strings                                                                 *)
(***************************************************************************)

\* White space removed by String.prototype.trim (the characters the inputs use).
WhiteSpace == {" ", "\t", "\n", "\r"}

Digits == <<"0","1","2","3","4","5","6","7","8","9">>

DigitSet == {Digits[i] : i \in 1..Len(Digits)}

\* s.startsWith(p)
StartsWith(s, p) == Len(s) >= Len(p) /\ SubSeq(s, 1, Len(p)) = p

\* String.prototype.includes
Includes(s, p) == \E i \in 0..(Len(s) - Len(p)) : SubSeq(s, i + 1, i + Len(p)) = p

\* s.slice(n)
Drop(s, n) == SubSeq(s, n + 1, Len(s))

RECURSIVE StripStart(_, _)
\* Removal of the longest prefix of s made of characters of set cs
\* (the regular expression ^[cs]* replaced by '').
StripStart(s, cs) ==
    IF s # <<>> /\ Head(s) \in cs THEN StripStart(Tail(s), cs) ELSE s

RECURSIVE StripEnd(_, _)
\* Removal of the longest suffix of s made of characters of set cs
\* (the regular expression [cs]*$ replaced by '').
StripEnd(s, cs) ==
    IF s # <<>> /\ s[Len(s)] \in cs THEN StripEnd(SubSeq(s, 1, Len(s) - 1), cs) ELSE s

\* String.prototype.trim
Trim(s) == StripEnd(StripStart(s, WhiteSpace), WhiteSpace)

RECURSIVE SplitFrom(_, _, _)
\* String.prototype.split(sep) for a one-character separator, cur being the
\* piece collected so far: always at least one piece, empty pieces are kept.
SplitFrom(s, sep, cur) ==
    IF s = <<>> THEN <<cur>>
    ELSE IF Head(s) = sep THEN <<cur>> \o SplitFrom(Tail(s), sep, <<>>)
    ELSE SplitFrom(Tail(s), sep, Append(cur, Head(s)))

Split(s, sep) == SplitFrom(s, sep, <<>>)

RECURSIVE Join(_, _)
\* Array.prototype.join(sep)
Join(parts, sep) ==
    IF parts = <<>> THEN <<>>
    ELSE IF Len(parts) = 1 THEN parts[1]
    ELSE parts[1] \o <<sep>> \o Join(Tail(parts), sep)

\* An optional value: undefined, or a defined value.
Undefined == [defined |-> FALSE, value |-> <<>>]

Defined(v) == [defined |-> TRUE, value |-> v]

(***************************************************************************)
(* Numbers and their decimal text                                          *)
(***************************************************************************)

\* Not-a-Number.  The modelled inputs carry no sign and no fraction, so every
\* other number of the model is a natural number and -1 is free to stand for NaN.
NaN == 0 - 1

DigitValue(c) == (CHOOSE i \in 1..Len(Digits) : Digits[i] = c) - 1

RECURSIVE DigitsValue(_, _)
\* Value of the longest prefix of decimal digits of s, acc being the value read so far.
DigitsValue(s, acc) ==
    IF s # <<>> /\ Head(s) \in DigitSet
    THEN DigitsValue(Tail(s), acc * 10 + DigitValue(Head(s)))
    ELSE acc

\* parseFloat(v) on unsigned text without fraction or exponent: leading white
\* space is skipped, the longest prefix of digits is the value, the rest is
\* ignored; NaN when no digit leads.
parseFloat(v) ==
    LET t == StripStart(v, WhiteSpace)
    IN  IF t # <<>> /\ Head(t) \in DigitSet THEN DigitsValue(t, 0) ELSE NaN

RECURSIVE NatToString(_)
\* Number.prototype.toString of a natural number.
NatToString(n) ==
    IF n < 10 THEN <<Digits[n + 1]>>
    ELSE NatToString(n \div 10) \o <<Digits[(n % 10) + 1]>>

\* Math.max(a, b): NaN as soon as one argument is NaN.
MathMax2(a, b) ==
    IF a = NaN \/ b = NaN THEN NaN ELSE IF a >= b THEN a ELSE b

RECURSIVE MathMax(_, _)
\* Math.max(a, ...xs)
MathMax(a, xs) ==
    IF xs = <<>> THEN a ELSE MathMax(MathMax2(a, Head(xs)), Tail(xs))

(***************************************************************************)
(* Public keys: base58 text <-> 32 bytes (new PublicKey(text), toBase58)   *)
(***************************************************************************)

BASE58_ALPHABET == <<"1","2","3","4","5","6","7","8","9","A","B","C","D","E","F","G","H","J","K","L","M","N","P","Q","R","S","T","U","V","W","X","Y","Z","a","b","c","d","e","f","g","h","i","j","k","m","n","o","p","q","r","s","t","u","v","w","x","y","z">>

Base58Set == {BASE58_ALPHABET[i] : i \in 1..Len(BASE58_ALPHABET)}

Base58Index(c) == (CHOOSE i \in 1..Len(BASE58_ALPHABET) : BASE58_ALPHABET[i] = c) - 1

RECURSIVE MulAdd(_, _, _, _)
\* num * mul + carry, for a number written least significant digit first in the
\* given base, without high zero digits (zero is the empty sequence).
MulAdd(num, base, mul, carry) ==
    IF num = <<>>
    THEN IF carry = 0 THEN <<>>
         ELSE <<carry % base>> \o MulAdd(<<>>, base, mul, carry \div base)
    ELSE LET v == num[1] * mul + carry
         IN  <<v % base>> \o MulAdd(Tail(num), base, mul, v \div base)

RECURSIVE Reverse(_)
Reverse(s) == IF s = <<>> THEN <<>> ELSE Append(Reverse(Tail(s)), Head(s))

RECURSIVE LeadingCount(_, _)
\* Number of leading elements of s equal to x.
LeadingCount(s, x) ==
    IF s # <<>> /\ Head(s) = x THEN 1 + LeadingCount(Tail(s), x) ELSE 0

RECURSIVE Base58Number(_, _)
\* The number written by the base58 digits s, in base 256, acc being the
\* digits read so far.
Base58Number(s, acc) ==
    IF s = <<>> THEN acc
    ELSE Base58Number(Tail(s), MulAdd(acc, 256, 58, Base58Index(Head(s))))

\* bs58.decode: each leading '1' is a zero byte, the rest is a big-endian number.
Base58Decode(s) ==
    LET zeroes == LeadingCount(s, "1")
    IN  [i \in 1..zeroes |-> 0] \o Reverse(Base58Number(Drop(s, zeroes), <<>>))

RECURSIVE BytesNumber(_, _)
\* The number written by the bytes b (big-endian), in base 58.
BytesNumber(b, acc) ==
    IF b = <<>> THEN acc
    ELSE BytesNumber(Tail(b), MulAdd(acc, 58, 256, Head(b)))

\* PublicKey.toBase58 (bs58.encode): each leading zero byte is a '1'.
toBase58(bytes) ==
    LET zeroes == LeadingCount(bytes, 0)
        num == Reverse(BytesNumber(Drop(bytes, zeroes), <<>>))
    IN  [i \in 1..zeroes |-> "1"] \o [i \in 1..Len(num) |-> BASE58_ALPHABET[num[i] + 1]]

\* Length in bytes of a public key.
PUBLIC_KEY_LENGTH == 32

\* new PublicKey(text): the 32 decoded bytes, or a throw when a character is
\* not of the base58 alphabet or the decoded length is not 32.
NewPublicKey(text) ==
    IF \A i \in 1..Len(text) : text[i] \in Base58Set
    THEN LET bytes == Base58Decode(text)
         IN  IF Len(bytes) = PUBLIC_KEY_LENGTH
             THEN [ok |-> TRUE, bytes |-> bytes]
             ELSE [ok |-> FALSE, bytes |-> <<>>]
    ELSE [ok |-> FALSE, bytes |-> <<>>]

(***************************************************************************)
(* parseWalletUrl                                                          *)
(***************************************************************************)

TREZOR == <<"t","r","e","z","o","r">>

LEDGER == <<"l","e","d","g","e","r">>

\* Object.values(WalletType), in declaration order.
WalletTypes == <<TREZOR, LEDGER>>

WALLET_URL_IDENTIFIER == <<"u","s","b",":","/","/">>

SOLANA_BIP44_BASE_PATH == <<"4","4","'","/","5","0","1","'">>

\* ^usb://(trezor|ledger)/? : the alternatives are tried in order at the start
\* of the text and nothing is asked of what follows the kind; the optional
\* slash is taken when it is there.  The length matched and the group (the
\* kind), or no match.
WALLET_URL_PREFIX_REGEXP(text) ==
    LET kinds == {i \in 1..Len(WalletTypes) :
                     StartsWith(text, WALLET_URL_IDENTIFIER \o WalletTypes[i])}
    IN  IF kinds = {} THEN [matched |-> FALSE, length |-> 0, group |-> <<>>]
        ELSE LET i == CHOOSE j \in kinds : \A k \in kinds : j <= k
                 n == Len(WALLET_URL_IDENTIFIER) + Len(WalletTypes[i])
             IN  [matched |-> TRUE,
                  length  |-> IF Len(text) > n /\ text[n + 1] = "/" THEN n + 1 ELSE n,
                  group   |-> WalletTypes[i]]

\* A variant of SOLANA_BIP44_BASE_REGEXP that knows the prefix only with its
\* two quotes, ^44'\/501'\/ .
SOLANA_BIP44_BASE_REGEXP_quoted(text) ==
    IF StartsWith(text, SOLANA_BIP44_BASE_PATH \o <<"/">>)
    THEN Len(SOLANA_BIP44_BASE_PATH) + 1
    ELSE 0

\* ^44[']{0,1}\/501[']{0,1}\/ : the length matched at the start of the text,
\* 0 when the text does not match.
SOLANA_BIP44_BASE_REGEXP(text) ==
    LET quote(t) == IF t # <<>> /\ Head(t) = "'" THEN 1 ELSE 0
        a == IF StartsWith(text, <<"4","4">>) THEN 2 ELSE 0
        b == a + quote(Drop(text, a))
        c == IF StartsWith(Drop(text, b), <<"/","5","0","1">>) THEN b + 4 ELSE 0
        d == c + quote(Drop(text, c))
    IN  IF a # 0 /\ c # 0 /\ StartsWith(Drop(text, d), <<"/">>) THEN d + 1 ELSE 0

\* /[0-9]+/.test(text): the expression is not anchored, one digit anywhere
\* in the text is a match.
IS_NUMERIC_REGEXP(text) == \E i \in 1..Len(text) : text[i] \in DigitSet

\* The result of parseWalletUrl: a return value or a thrown error, `names`
\* being the text the error message quotes besides the url.
ParseOk(type, identifier, path) ==
    [status |-> "ok", walletType |-> type, walletIdentifier |-> identifier,
     parsedDerivedPath |-> path, names |-> <<>>]

ParseError(kind, names) ==
    [status |-> kind, walletType |-> <<>>, walletIdentifier |-> Undefined,
     parsedDerivedPath |-> <<>>, names |-> names]

\* /^([^?]*)\??(?:key=([^]*)|)$/ from position p on, group 1 being text[1..k]:
\* 'key=' and the rest of the text, or the end of the text.
QueryTail(text, k, p) ==
    IF StartsWith(Drop(text, p - 1), <<"k","e","y","=">>)
    THEN [matched |-> TRUE, identifier |-> Defined(SubSeq(text, 1, k)),
          key |-> Defined(Drop(text, p + 3))]
    ELSE IF p = Len(text) + 1
    THEN [matched |-> TRUE, identifier |-> Defined(SubSeq(text, 1, k)), key |-> Undefined]
    ELSE [matched |-> FALSE, identifier |-> Undefined, key |-> Undefined]

RECURSIVE QueryMatchFrom(_, _)
\* The backtracking of the regular expression: group 1 is tried from its
\* longest extent k downwards, and for each extent the optional '?' is first
\* taken, then left.
QueryMatchFrom(text, k) ==
    LET taken == IF k < Len(text) /\ text[k + 1] = "?"
                 THEN QueryTail(text, k, k + 2)
                 ELSE [matched |-> FALSE, identifier |-> Undefined, key |-> Undefined]
        left  == QueryTail(text, k, k + 1)
    IN  IF taken.matched THEN taken
        ELSE IF left.matched THEN left
        ELSE IF k = 0 THEN left
        ELSE QueryMatchFrom(text, k - 1)

\* queryString.trim().match(regex): group 1 extends at most to the first '?'.
QueryMatch(queryString) ==
    LET text == Trim(queryString)
        marks == {i \in 1..Len(text) : text[i] = "?"}
        first == IF marks = {} THEN Len(text) + 1
                 ELSE CHOOSE i \in marks : \A j \in marks : i <= j
    IN  QueryMatchFrom(text, first - 1)

\* extractIdentifierAndKey: the identifier and the key of the text after the
\* prefix, or the throw of 'Invalid wallet url'.
extractIdentifierAndKey(queryString) ==
    LET match == QueryMatch(queryString)
    IN  IF ~match.matched
           \/ (Len(queryString) > 0 /\ ~match.key.defined /\ ~match.identifier.defined)
        THEN [thrown |-> TRUE, identifier |-> Undefined, key |-> Undefined]
        ELSE [thrown |-> FALSE, identifier |-> match.identifier, key |-> match.key]

\* A variant of evaluateWalletIdentifier that takes an identifier that is no
\* public key for no identifier.
evaluateWalletIdentifier_lenient(pubkey) ==
    IF pubkey.defined /\ NewPublicKey(StripEnd(pubkey.value, {"/", " "})).ok
    THEN [thrown |-> FALSE,
          identifier |-> Defined(NewPublicKey(StripEnd(pubkey.value, {"/", " "})).bytes)]
    ELSE [thrown |-> FALSE, identifier |-> Undefined]

\* evaluateWalletIdentifier: undefined for no identifier (or one made of
\* slashes and spaces), the public key, or the throw naming the identifier.
evaluateWalletIdentifier(pubkey) ==
    LET pubkeyAdjusted == IF pubkey.defined
                          THEN Defined(StripEnd(pubkey.value, {"/", " "}))
                          ELSE Undefined
    IN  IF ~pubkeyAdjusted.defined \/ Len(pubkeyAdjusted.value) = 0
        THEN [thrown |-> FALSE, identifier |-> Undefined]
        ELSE LET key == NewPublicKey(pubkeyAdjusted.value)
             IN  IF key.ok THEN [thrown |-> FALSE, identifier |-> Defined(key.bytes)]
                 ELSE [thrown |-> TRUE, identifier |-> Undefined]

RECURSIVE DerivedKeyNumbersFrom(_, _)
\* The loop of testDerivedKeyNumbers over the items left, finalPath being the
\* path built so far.
DerivedKeyNumbersFrom(items, finalPath) ==
    IF items = <<>> THEN [thrown |-> FALSE, finalPath |-> finalPath]
    ELSE LET pathItem == Trim(Head(items))
         IN  IF ~IS_NUMERIC_REGEXP(pathItem)
             THEN [thrown |-> TRUE, finalPath |-> <<>>]
             ELSE DerivedKeyNumbersFrom(Tail(items), finalPath \o <<"/">> \o pathItem)

\* testDerivedKeyNumbers: '/' and each trimmed item in turn, or the throw of
\* 'a set of numbers delimited with /'.
testDerivedKeyNumbers(derivedPath) ==
    LET splittedPath == Split(Trim(derivedPath), "/")
    IN  IF Len(splittedPath) = 0 THEN [thrown |-> TRUE, finalPath |-> <<>>]
        ELSE DerivedKeyNumbersFrom(splittedPath, <<>>)

\* A variant of DerivedPathOfKey without the branch `key === ''`: the empty
\* key is tested like any other.
DerivedPathOfKey_noEmptyKey(key) ==
    IF ~key.defined
    THEN [thrown |-> FALSE, names |-> <<>>, finalPath |-> SOLANA_BIP44_BASE_PATH]
    ELSE LET onlyKey == IF SOLANA_BIP44_BASE_REGEXP(key.value) # 0
                        THEN Drop(key.value, SOLANA_BIP44_BASE_REGEXP(key.value))
                        ELSE StripStart(key.value, {"/", " "})
             tested == testDerivedKeyNumbers(onlyKey)
         IN  [thrown |-> tested.thrown, names |-> onlyKey,
              finalPath |-> IF tested.thrown THEN <<>>
                            ELSE SOLANA_BIP44_BASE_PATH \o tested.finalPath]

\* The derived path of the key of the url (the branches on `key`).
DerivedPathOfKey(key) ==
    IF ~key.defined
    THEN [thrown |-> FALSE, names |-> <<>>, finalPath |-> SOLANA_BIP44_BASE_PATH]
    ELSE IF key.value = <<>>
    THEN [thrown |-> FALSE, names |-> <<>>, finalPath |-> SOLANA_BIP44_BASE_PATH]
    ELSE LET onlyKey == IF SOLANA_BIP44_BASE_REGEXP(key.value) # 0
                        THEN Drop(key.value, SOLANA_BIP44_BASE_REGEXP(key.value))
                        ELSE StripStart(key.value, {"/", " "})
             tested == testDerivedKeyNumbers(onlyKey)
         IN  [thrown |-> tested.thrown, names |-> onlyKey,
              finalPath |-> IF tested.thrown THEN <<>>
                            ELSE SOLANA_BIP44_BASE_PATH \o tested.finalPath]

parseWalletUrl(url) ==
    LET walletUrl == Trim(url)
        walletUrlMatch == WALLET_URL_PREFIX_REGEXP(walletUrl)
        walletPath == Drop(walletUrl, walletUrlMatch.length)
        extracted == extractIdentifierAndKey(walletPath)
        walletIdentifier == evaluateWalletIdentifier(extracted.identifier)
        derived == DerivedPathOfKey(extracted.key)
    IN  IF ~walletUrlMatch.matched THEN ParseError("InvalidHardwareWalletUrl", walletUrl)
        ELSE IF extracted.thrown THEN ParseError("InvalidWalletUrl", walletUrl)
        ELSE IF walletIdentifier.thrown THEN ParseError("InvalidPubkey", extracted.identifier.value)
        ELSE IF derived.thrown THEN ParseError("InvalidDerivedPath", derived.names)
        ELSE ParseOk(walletUrlMatch.group, walletIdentifier.identifier, derived.finalPath)

\* The base58 texts of two public keys.
PK_q9XW == <<"q","9","X","W","c","Z","7","T","1","w","P","4","b","W","9","S","B","4","X","g","N","N","w","j","n","F","E","J","9","8","2","n","E","8","a","V","b","b","N","u","w","o","t">>

PK_2cTb == <<"2","c","T","b","f","2","T","J","y","3","B","T","u","G","q","A","b","B","5","H","R","T","L","Y","e","r","o","B","Y","n","j","v","Y","m","n","v","m","2","3","q","F","W","P","t">>

(***************************************************************************)
(* Derivation-path combinatorics                                           *)
(***************************************************************************)

RECURSIVE generate(_, _, _)
RECURSIVE generateLoop(_, _, _, _)
\* The inner function generate(prefix, remainingLength) of
\* generateAllCombinations: the combinations it pushes, in the order it pushes them.
generate(maxDepth, prefix, remainingLength) ==
    IF remainingLength = 0 THEN <<prefix>>
    ELSE generateLoop(maxDepth, prefix, remainingLength, 0)

\* for (let i = 0; i <= maxDepth; i++): no comparison with NaN is true.
generateLoop(maxDepth, prefix, remainingLength, i) ==
    IF maxDepth # NaN /\ i <= maxDepth
    THEN generate(maxDepth, Append(prefix, i), remainingLength - 1)
         \o generateLoop(maxDepth, prefix, remainingLength, i + 1)
    ELSE <<>>

RECURSIVE generateLengths_exclusive(_, _, _)
\* A variant of generateLengths whose loop ends before maxLength:
\* for (let length = 1; length < maxLength; length++)
generateLengths_exclusive(maxDepth, maxLength, length) ==
    IF length < maxLength
    THEN generate(maxDepth, <<>>, length)
         \o generateLengths_exclusive(maxDepth, maxLength, length + 1)
    ELSE <<>>

RECURSIVE generateLengths(_, _, _)
\* for (let length = 1; length <= maxLength; length++) generate([], length)
generateLengths(maxDepth, maxLength, length) ==
    IF length <= maxLength
    THEN generate(maxDepth, <<>>, length) \o generateLengths(maxDepth, maxLength, length + 1)
    ELSE <<>>

\* A variant of generateAllCombinations without the test for undefined: no
\* comparison with undefined is true, the loops push nothing.
generateAllCombinations_noUndefinedTest(maxDepth, maxLength) ==
    IF ~maxDepth.defined \/ ~maxLength.defined THEN <<<<>>>>
    ELSE <<<<>>>> \o generateLengths(maxDepth.value, maxLength.value, 1)

\* generateAllCombinations(maxDepth, maxLength), each bound being optional.
generateAllCombinations(maxDepth, maxLength) ==
    IF ~maxDepth.defined \/ ~maxLength.defined THEN <<>>
    ELSE <<<<>>>> \o generateLengths(maxDepth.value, maxLength.value, 1)

\* getHeuristicDepthAndWide(derivedPath, defaultDepth, defaultWide): the
\* segments after the first two widen the defaults.
getHeuristicDepthAndWide(derivedPath, defaultDepth, defaultWide) ==
    LET splitDerivedPath == Split(derivedPath, "/")
        rest == Drop(splitDerivedPath, 2)
    IN  IF Len(splitDerivedPath) > 2
        THEN [depth |-> MathMax(defaultDepth, [i \in 1..Len(rest) |-> parseFloat(rest[i])]),
              wide  |-> MathMax2(defaultWide, Len(rest))]
        ELSE [depth |-> defaultDepth, wide |-> defaultWide]

\* A variant of obtainAccountDiscoveryDepthAndWide that does not strip the
\* leading 'm'.
obtainAccountDiscoveryDepthAndWide_keepsM(derivedPath, defaultDepth, defaultWide) ==
    LET splitDerivedPath == Split(derivedPath, "/")
        rest == Drop(splitDerivedPath, 2)
    IN  IF Len(splitDerivedPath) > 2
        THEN [depth |-> MathMax(defaultDepth, [i \in 1..Len(rest) |-> parseFloat(rest[i])]),
              wide  |-> MathMax2(defaultWide, Len(rest))]
        ELSE [depth |-> defaultDepth, wide |-> defaultWide]

\* obtainAccountDiscoveryDepthAndWide(derivedPath, defaultDepth, defaultWide):
\* a leading 'm' is dropped, then the segments after the first two widen the
\* defaults.
obtainAccountDiscoveryDepthAndWide(derivedPath, defaultDepth, defaultWide) ==
    LET split == Split(derivedPath, "/")
        splitDerivedPath == IF Len(split) > 1 /\ Trim(split[1]) = <<"m">>
                            THEN Drop(split, 1)
                            ELSE split
        rest == Drop(splitDerivedPath, 2)
    IN  IF Len(splitDerivedPath) > 2
        THEN [depth |-> MathMax(defaultDepth, [i \in 1..Len(rest) |-> parseFloat(rest[i])]),
              wide  |-> MathMax2(defaultWide, Len(rest))]
        ELSE [depth |-> defaultDepth, wide |-> defaultWide]

\* The path probed for a combination: the base path and the decimal text of
\* each number, joined by '/'.
heuristicDerivedPath(combination) ==
    Join(<<SOLANA_BIP44_BASE_PATH>>
         \o [i \in 1..Len(combination) |-> NatToString(combination[i])], "/")

(***************************************************************************)
(* State                                                                   *)
(***************************************************************************)

VARIABLES
    urlParts,       \* the pieces the text given to parseWalletUrl is made of
    walletUrl,      \* the text given to parseWalletUrl
    parsed,         \* what parseWalletUrl returned or threw for it
    ledgerDevices,  \* getDevices(): the paths of the connected devices, in order
    holders,        \* the <<device path, derivation path>> at which a device
                    \* reports the target public key
    cache,          \* IN_LIB_TRANSPORT_CACHE: device path -> transport
    exitHooks,      \* the callbacks given to scheduleOnExit, each the
                    \* transports it closes
    opened,         \* the transports TransportNodeHid.open has returned, in order
    call,           \* the running call: arguments, locals, the await it is
                    \* suspended at, its result
    mon,            \* what an observer of the device requests of the running
                    \* call has seen
    calc,           \* a call of one of the pure functions: the function, its
                    \* arguments, and what it returned
    exit,           \* the exit of the process: the callbacks of scheduleOnExit
                    \* that ran, and what became of the calls of close
    second          \* a call of getSolanaApi or searchDerivedPathFromPubkey
                    \* that began while the running call was suspended

vars == <<urlParts, walletUrl, parsed, ledgerDevices, holders, cache, exitHooks, opened, call,
          mon, calc, exit, second>>

\* No pure function is called.
NoCalc == [fn |-> "none", args |-> <<>>, status |-> "none", result |-> <<>>]

\* The process is not exiting: no callback ran, close was called on nothing.
NotExiting ==
    [status |-> "running",  \* "running", "exiting" (the callbacks run), "exited"
     hooksRun |-> 0,        \* the number of callbacks that ran
     closed |-> <<>>,       \* the transports close was called on, in order
     caught |-> {},         \* the transports whose close threw, caught by the callback
     unhandled |-> {},      \* the transports whose close returned a promise that
                            \* was rejected: the promise is dropped, nothing handles it
     escaped |-> FALSE]     \* an error was thrown out of a callback

(***************************************************************************)
(* The devices                                                             *)
(***************************************************************************)

\* Largest number of connected devices.
MaxDevices == 2

\* The path of the i-th connected device (device.path).
DevicePath(i) == <<"hidraw", i>>

Path_0_1 == SOLANA_BIP44_BASE_PATH \o <<"/","0","/","1">>

Path_10_10_10 == SOLANA_BIP44_BASE_PATH \o <<"/","1","0","/","1","0","/","1","0">>

Path_11 == SOLANA_BIP44_BASE_PATH \o <<"/","1","1">>

Path_a1 == SOLANA_BIP44_BASE_PATH \o <<"/","a","1">>

\* The derivation paths a call of getSolanaApi is given.
GivenPaths == {SOLANA_BIP44_BASE_PATH, Path_0_1, Path_11, Path_a1}

\* The derivation paths at which a device may report the target public key.
HolderPaths == {SOLANA_BIP44_BASE_PATH, Path_0_1, Path_10_10_10, Path_11}

\* The target public key of a call, and the key a device reports where it does
\* not report the target.
TargetKey == NewPublicKey(<<"q","9","X","W","c","Z","7","T","1","w","P","4","b","W","9","S","B","4","X","g","N","N","w","j","n","F","E","J","9","8","2","n","E","8","a","V","b","b","N","u","w","o","t">>).bytes

OtherKey == NewPublicKey(<<"F","d","t","i","e","p","B","t","P","9","8","o","U","2","u","P","N","g","A","z","U","o","G","w","g","g","U","D","d","R","X","w","J","H","2","K","J","o","3","o","U","a","i","x">>).bytes

\* getPublicKey(solanaApi, derivedPath): the key the device of the transport
\* reports at the path.
getPublicKey(device, derivedPath) ==
    IF <<device, derivedPath>> \in holders THEN TargetKey ELSE OtherKey

\* PublicKey.equals
KeyEquals(a, b) == a = b

(***************************************************************************)
(* A call                                                                  *)
(***************************************************************************)

UndefinedNumber == [defined |-> FALSE, value |-> 0]

NoKey == [defined |-> FALSE, value |-> <<>>]

NoTransport == [defined |-> FALSE, value |-> [path |-> DevicePath(0), id |-> 0]]

NoRequest == [op |-> "none", device |-> DevicePath(0), path |-> <<>>]

NoResult == [status |-> "none", transport |-> NoTransport, derivedPath |-> <<>>,
             pubkey |-> NoKey, names |-> <<>>]

IdleCall ==
    [op |-> "none", pubkey |-> NoKey, argPath |-> <<>>,
     argDepth |-> UndefinedNumber, argWide |-> UndefinedNumber,
     pc |-> "idle", pending |-> NoRequest,
     derivedPath |-> <<>>, transport |-> NoTransport,
     ledgerDevices |-> <<>>,
     openDevices |-> <<>>, transports |-> <<>>, openCont |-> "none",
     openedTransports |-> <<>>, tIdx |-> 0, cIdx |-> 0,
     depth |-> UndefinedNumber, wide |-> UndefinedNumber,
     result |-> NoResult]

\* The defaults of the parameters heuristicDepth and heuristicWide.
DefaultHeuristicDepth == 10

DefaultHeuristicWide == 3

\* A parameter with a default value: the default replaces undefined.
OrDefault(arg, default) == IF arg.defined THEN arg ELSE Defined(default)

\* heuristicsCombinations of the search of call c.  The combinations of every
\* search space a call can have are computed once.
SearchSpaces ==
    {<<d, w>> : d \in {NaN} \cup 0..(DefaultHeuristicDepth + 1),
                w \in 0..(DefaultHeuristicWide + 1)}

CombinationsTable ==
    [dw \in SearchSpaces |-> generateAllCombinations(Defined(dw[1]), Defined(dw[2]))]

heuristicsCombinations(c) ==
    IF ~c.depth.defined \/ ~c.wide.defined THEN <<>>
    ELSE IF <<c.depth.value, c.wide.value>> \in SearchSpaces
    THEN CombinationsTable[<<c.depth.value, c.wide.value>>]
    ELSE generateAllCombinations(c.depth, c.wide)

\* The call suspended at an await of getPublicKey, the request being sent.
IssueGetAddress(c, site, transport, derivedPath) ==
    [c EXCEPT !.pc = site,
              !.pending = [op |-> "getAddress", device |-> transport.path,
                           path |-> derivedPath]]

\* The call returned or threw.
FinishCall(c, result) ==
    [c EXCEPT !.pc = "done", !.pending = NoRequest, !.result = result]

\* getSolanaApi from `if (transport === undefined)` on, the transport being
\* defined: the key of the path is asked of the device once more.
IssueFinal(c) == IssueGetAddress(c, "awaitFinal", c.transport.value, c.derivedPath)

\* getSolanaApi: throw new Error('Available ledger devices does not provide pubkey ...')
ThrowPubkeyNotFound(c) ==
    FinishCall(c, [status |-> "PubkeyNotFound", transport |-> NoTransport,
                   derivedPath |-> <<>>, pubkey |-> NoKey,
                   names |-> <<toBase58(c.pubkey.value), c.derivedPath>>])

\* throw new Error('No ledger device found')
ThrowNoDeviceFound(c) ==
    FinishCall(c, [status |-> "NoDeviceFound", transport |-> NoTransport,
                   derivedPath |-> <<>>, pubkey |-> NoKey, names |-> <<>>])

\* What follows the return of searchDerivedPathFromPubkey: the return value of
\* a call of it, or the rest of getSolanaApi.
SearchReturn(c, found) ==
    IF c.op = "searchDerivedPathFromPubkey"
    THEN FinishCall(c, [status |-> IF found.defined THEN "found" ELSE "null",
                        transport |-> IF found.defined THEN Defined(found.value.transport)
                                      ELSE NoTransport,
                        derivedPath |-> IF found.defined THEN found.value.derivedPath ELSE <<>>,
                        pubkey |-> NoKey, names |-> <<>>])
    ELSE IF found.defined
    THEN IssueFinal([c EXCEPT !.transport = Defined(found.value.transport),
                              !.derivedPath = found.value.derivedPath])
    ELSE ThrowPubkeyNotFound(c)

NotFound == [defined |-> FALSE,
             value |-> [derivedPath |-> <<>>, transport |-> NoTransport.value]]

RECURSIVE SearchLoop_oneCandidate(_, _, _)
\* A variant of SearchLoop that goes to the next transport after the first
\* combination.
SearchLoop_oneCandidate(c, t, k) ==
    IF t > Len(c.openedTransports) THEN SearchReturn(c, NotFound)
    ELSE IF k > 1 THEN SearchLoop_oneCandidate(c, t + 1, 1)
    ELSE IssueGetAddress([c EXCEPT !.tIdx = t, !.cIdx = k], "awaitSearch",
                         c.openedTransports[t],
                         heuristicDerivedPath(heuristicsCombinations(c)[k]))

RECURSIVE SearchLoop_firstDevice(_, _, _)
\* A variant of SearchLoop whose outer loop ends after the first transport.
SearchLoop_firstDevice(c, t, k) ==
    IF t > 1 THEN SearchReturn(c, NotFound)
    ELSE IF k > Len(heuristicsCombinations(c)) THEN SearchLoop_firstDevice(c, t + 1, 1)
    ELSE IssueGetAddress([c EXCEPT !.tIdx = t, !.cIdx = k], "awaitSearch",
                         c.openedTransports[t],
                         heuristicDerivedPath(heuristicsCombinations(c)[k]))

RECURSIVE SearchLoop(_, _, _)
\* The nested loops of searchDerivedPathFromPubkey from transport t and
\* combination k on, up to the next await.
SearchLoop(c, t, k) ==
    IF t > Len(c.openedTransports) THEN SearchReturn(c, NotFound)
    ELSE IF k > Len(heuristicsCombinations(c)) THEN SearchLoop(c, t + 1, 1)
    ELSE IssueGetAddress([c EXCEPT !.tIdx = t, !.cIdx = k], "awaitSearch",
                         c.openedTransports[t],
                         heuristicDerivedPath(heuristicsCombinations(c)[k]))

\* A variant of OpenCached that does not look into the cache.
OpenCached_ignoresCache(devices, transports, cacheNow) == transports

RECURSIVE OpenCached(_, _, _)
\* The loop of openTransports as long as it does not await: the transports of
\* the devices the cache has are pushed.
OpenCached(devices, transports, cacheNow) ==
    IF Len(transports) < Len(devices) /\ devices[Len(transports) + 1] \in DOMAIN cacheNow
    THEN OpenCached(devices, Append(transports, cacheNow[devices[Len(transports) + 1]]), cacheNow)
    ELSE transports

\* What follows the return of openTransports in its caller, up to the next await.
AfterOpen(c) ==
    IF c.openCont = "noTarget"
    THEN IssueFinal([c EXCEPT !.transport = Defined(c.transports[1])])
    ELSE IF c.openCont = "given"
    THEN IssueGetAddress([c EXCEPT !.openedTransports = c.transports, !.tIdx = 1],
                         "awaitGiven", c.transports[1], c.derivedPath)
    ELSE SearchLoop([c EXCEPT !.openedTransports = c.transports], 1, 1)

\* openTransports from its loop on: the call awaits the opening of the first
\* device the cache does not have, or openTransports returns.
ContinueOpen(c, cacheNow) ==
    LET transports == OpenCached(c.openDevices, c.transports, cacheNow)
        d == [c EXCEPT !.transports = transports]
    IN  IF Len(transports) < Len(c.openDevices)
        THEN [d EXCEPT !.pc = "awaitOpen",
                       !.pending = [op |-> "open",
                                    device |-> c.openDevices[Len(transports) + 1],
                                    path |-> <<>>]]
        ELSE AfterOpen(d)

\* openTransports(...devices), cont naming the caller.
BeginOpen(c, devices, cont, cacheNow) ==
    ContinueOpen([c EXCEPT !.openDevices = devices, !.transports = <<>>,
                           !.openCont = cont], cacheNow)

\* A variant of StartSearch without the test for no device.
StartSearch_noDeviceTest(c, heuristicDepth, heuristicWide) ==
    BeginOpen([c EXCEPT !.ledgerDevices = ledgerDevices,
                        !.depth = OrDefault(heuristicDepth, DefaultHeuristicDepth),
                        !.wide = OrDefault(heuristicWide, DefaultHeuristicWide)],
              ledgerDevices, "search", cache)

\* searchDerivedPathFromPubkey(pubkey, logger, heuristicDepth, heuristicWide)
\* up to its first await: its local ledgerDevices is what getDevices() returns now.
StartSearch(c, heuristicDepth, heuristicWide) ==
    LET d == [c EXCEPT !.ledgerDevices = ledgerDevices,
                       !.depth = OrDefault(heuristicDepth, DefaultHeuristicDepth),
                       !.wide = OrDefault(heuristicWide, DefaultHeuristicWide)]
    IN  IF Len(d.ledgerDevices) = 0 THEN ThrowNoDeviceFound(d)
        ELSE BeginOpen(d, d.ledgerDevices, "search", cache)

\* A variant of SearchFromGiven that leaves the search space to the defaults
\* of getHeuristicDepthAndWide itself.
SearchFromGiven_ownDefaults(c) ==
    LET space == getHeuristicDepthAndWide(c.derivedPath, 20, 2)
    IN  StartSearch(c, Defined(space.depth), Defined(space.wide))

\* getSolanaApi after the loop over the opened transports found no match at
\* the given path: the search space of the path, and the search.
SearchFromGiven(c) ==
    LET space == getHeuristicDepthAndWide(
                     c.derivedPath,
                     OrDefault(c.argDepth, DefaultHeuristicDepth).value,
                     OrDefault(c.argWide, DefaultHeuristicWide).value)
    IN  StartSearch(c, Defined(space.depth), Defined(space.wide))

\* A variant of getSolanaApi that opens every device also when it is given no
\* public key.
getSolanaApi_opensAll(c) ==
    LET d == [c EXCEPT !.ledgerDevices = ledgerDevices]
    IN  IF Len(d.ledgerDevices) = 0 THEN ThrowNoDeviceFound(d)
        ELSE IF ~c.pubkey.defined
        THEN BeginOpen(d, d.ledgerDevices, "noTarget", cache)
        ELSE BeginOpen(d, d.ledgerDevices, "given", cache)

\* getSolanaApi(pubkey, derivedPath) up to its first await: no device is an
\* error; without a public key only the first device is opened, with one all are.
getSolanaApi(c) ==
    LET d == [c EXCEPT !.ledgerDevices = ledgerDevices]
    IN  IF Len(d.ledgerDevices) = 0 THEN ThrowNoDeviceFound(d)
        ELSE IF ~c.pubkey.defined
        THEN BeginOpen(d, <<d.ledgerDevices[1]>>, "noTarget", cache)
        ELSE BeginOpen(d, d.ledgerDevices, "given", cache)

\* A variant of GivenStep without the `break`: the loop goes on after a match,
\* the last transport that matched is kept.
GivenStep_noBreak(c, ledgerPubkey) ==
    LET d == IF KeyEquals(ledgerPubkey, c.pubkey.value)
             THEN [c EXCEPT !.transport = Defined(c.openedTransports[c.tIdx])]
             ELSE c
    IN  IF c.tIdx < Len(c.openedTransports)
        THEN IssueGetAddress([d EXCEPT !.tIdx = @ + 1], "awaitGiven",
                             c.openedTransports[c.tIdx + 1], c.derivedPath)
        ELSE IF d.transport.defined THEN IssueFinal(d)
        ELSE SearchFromGiven(d)

\* One turn of the loop of getSolanaApi over the opened transports, the device
\* having answered ledgerPubkey: a match ends the loop, the end of the loop
\* without a match starts the search.
GivenStep(c, ledgerPubkey) ==
    IF KeyEquals(ledgerPubkey, c.pubkey.value)
    THEN IssueFinal([c EXCEPT !.transport = Defined(c.openedTransports[c.tIdx])])
    ELSE IF c.tIdx < Len(c.openedTransports)
    THEN IssueGetAddress([c EXCEPT !.tIdx = @ + 1], "awaitGiven",
                         c.openedTransports[c.tIdx + 1], c.derivedPath)
    ELSE SearchFromGiven(c)

\* A variant of SearchStep that does not compare the answer: the loops go on.
SearchStep_keepsOn(c, ledgerPubkey) == SearchLoop(c, c.tIdx, c.cIdx + 1)

\* A variant of SearchStep that returns the first opened transport with the
\* path that matched.
SearchStep_firstTransport(c, ledgerPubkey) ==
    IF KeyEquals(ledgerPubkey, c.pubkey.value)
    THEN SearchReturn(c, Defined([derivedPath |->
                                      heuristicDerivedPath(heuristicsCombinations(c)[c.cIdx]),
                                  transport |-> c.openedTransports[1]]))
    ELSE SearchLoop(c, c.tIdx, c.cIdx + 1)

\* One turn of the inner loop of searchDerivedPathFromPubkey, the device
\* having answered ledgerPubkey: a match returns the path and the transport.
SearchStep(c, ledgerPubkey) ==
    IF KeyEquals(ledgerPubkey, c.pubkey.value)
    THEN SearchReturn(c, Defined([derivedPath |->
                                      heuristicDerivedPath(heuristicsCombinations(c)[c.cIdx]),
                                  transport |-> c.openedTransports[c.tIdx]]))
    ELSE SearchLoop(c, c.tIdx, c.cIdx + 1)

(***************************************************************************)
(* The observer of the device requests of a call                           *)
(***************************************************************************)

IdleMon ==
    [devicesAtCall |-> 0,       \* the number of devices getDevices() returned to the call
     cacheAtCall |-> {},        \* the device paths the cache had when the call began
     openedAtCall |-> 0,        \* the number of transports opened before the call
     given |-> <<>>,            \* the requests sent by the loop over the given path
     final |-> <<>>,            \* the requests sent by the last statement of getSolanaApi
     searchCount |-> 0,         \* the number of requests sent by the search
     searchInOrder |-> TRUE,    \* every request of the search was the next of the
                                \* nested order (devices, then combinations)
     searchMatched |-> FALSE,   \* a request of the search was answered with the target
     matchAt |-> <<>>,          \* the first such request
     probeAfterMatch |-> FALSE, \* the search sent a request after that answer
     raised |-> <<>>]           \* the errors the device calls raised to the call

\* The search space the search of call c is to cover.
SearchSpaceOf(c) ==
    IF c.op = "getSolanaApi"
    THEN getHeuristicDepthAndWide(c.argPath, DefaultHeuristicDepth, DefaultHeuristicWide)
    ELSE [depth |-> OrDefault(c.argDepth, DefaultHeuristicDepth).value,
          wide  |-> OrDefault(c.argWide, DefaultHeuristicWide).value]

\* The candidate suffixes of that search space, in generateAllCombinations order.
CandidatesOf(c) ==
    LET space == SearchSpaceOf(c)
    IN  IF <<space.depth, space.wide>> \in SearchSpaces
        THEN CombinationsTable[<<space.depth, space.wide>>]
        ELSE generateAllCombinations(Defined(space.depth), Defined(space.wide))

RECURSIVE SuffixPath(_)
\* "44'/501'" followed by '/' and the decimal text of each segment.
SuffixPath(suffix) ==
    IF suffix = <<>> THEN SOLANA_BIP44_BASE_PATH
    ELSE SuffixPath(SubSeq(suffix, 1, Len(suffix) - 1))
         \o <<"/">> \o NatToString(suffix[Len(suffix)])

\* The k-th request of a search in the nested order: devices in enumeration
\* order, and for each device the candidates in order.
NestedOrder(c, k) ==
    LET n == Len(CandidatesOf(c))
    IN  <<c.ledgerDevices[((k - 1) \div n) + 1],
          SuffixPath(CandidatesOf(c)[((k - 1) % n) + 1])>>

\* The observer after the call became c: the request c awaits is noted.
Observe(m, c) ==
    LET request == <<c.pending.device, c.pending.path>>
    IN  IF c.pending.op # "getAddress" THEN m
        ELSE IF c.pc = "awaitGiven" THEN [m EXCEPT !.given = Append(@, request)]
        ELSE IF c.pc = "awaitFinal" THEN [m EXCEPT !.final = Append(@, request)]
        ELSE [m EXCEPT !.searchCount = @ + 1,
                       !.searchInOrder =
                           /\ @
                           /\ m.searchCount < Len(c.ledgerDevices) * Len(CandidatesOf(c))
                           /\ request = NestedOrder(c, m.searchCount + 1),
                       !.probeAfterMatch = @ \/ m.searchMatched]

\* The observer when a call begins.
ObserveCall(c) ==
    Observe([IdleMon EXCEPT !.devicesAtCall = Len(ledgerDevices),
                            !.cacheAtCall = DOMAIN cache,
                            !.openedAtCall = Len(opened)], c)

(***************************************************************************)
(* The operations                                                          *)
(***************************************************************************)

\* Largest bounds given to a call of searchDerivedPathFromPubkey.
MaxSearchDepth == 1

MaxSearchWide == 2

NotParsed == [status |-> "pending", walletType |-> <<>>, walletIdentifier |-> Undefined,
              parsedDerivedPath |-> <<>>, names |-> <<>>]

NoParts == [head |-> <<>>, id |-> <<>>, form |-> "none", raw |-> <<>>,
            prefix |-> <<>>, segments |-> <<>>, space |-> "none"]

\* LedgerWallet.getSolanaApi(pubkey, derivedPath) up to its first await;
\* heuristicDepth and heuristicWide are left to their defaults.  Nothing of
\* the process runs once it exits but the callbacks of scheduleOnExit.
CallGetSolanaApi(pubkey, derivedPath) ==
    /\ exit.status = "running"
    /\ call.pc \in {"idle", "done"}
    /\ call' = getSolanaApi([IdleCall EXCEPT !.op = "getSolanaApi", !.pubkey = pubkey,
                                             !.argPath = derivedPath,
                                             !.derivedPath = derivedPath])
    /\ mon' = ObserveCall(call')
    /\ UNCHANGED <<second, exit, calc, urlParts, walletUrl, parsed, ledgerDevices, holders, cache, exitHooks, opened>>

\* searchDerivedPathFromPubkey(pubkey, logger, heuristicDepth, heuristicWide)
\* called on its own, up to its first await.
CallSearchDerivedPathFromPubkey(pubkey, heuristicDepth, heuristicWide) ==
    /\ exit.status = "running"
    /\ call.pc \in {"idle", "done"}
    /\ call' = StartSearch([IdleCall EXCEPT !.op = "searchDerivedPathFromPubkey",
                                            !.pubkey = pubkey,
                                            !.argDepth = heuristicDepth,
                                            !.argWide = heuristicWide],
                           heuristicDepth, heuristicWide)
    /\ mon' = ObserveCall(call')
    /\ UNCHANGED <<second, exit, calc, urlParts, walletUrl, parsed, ledgerDevices, holders, cache, exitHooks, opened>>

\* scheduleTransportCloseOnExit(...transports): one callback, closing them.
scheduleTransportCloseOnExit(hooks, transports) == Append(hooks, transports)

\* TransportNodeHid.open(device.path) returns in openTransports: the transport
\* is scheduled for close, cached and pushed, and the loop goes on.
OpenReturns ==
    /\ exit.status = "running"
    /\ call.pc = "awaitOpen"
    /\ LET transport == [path |-> call.pending.device, id |-> Len(opened) + 1]
           cacheNow == [d \in DOMAIN cache \cup {transport.path} |->
                           IF d = transport.path THEN transport ELSE cache[d]]
       IN  /\ opened' = Append(opened, transport)
           /\ exitHooks' = scheduleTransportCloseOnExit(exitHooks, <<transport>>)
           /\ cache' = cacheNow
           /\ call' = ContinueOpen([call EXCEPT !.transports = Append(@, transport)], cacheNow)
    /\ mon' = Observe(mon, call')
    /\ UNCHANGED <<second, exit, calc, urlParts, walletUrl, parsed, ledgerDevices, holders>>

\* getPublicKey returns in the loop of getSolanaApi over the opened transports.
GivenReturns ==
    /\ exit.status = "running"
    /\ call.pc = "awaitGiven"
    /\ call' = GivenStep(call, getPublicKey(call.pending.device, call.pending.path))
    /\ mon' = Observe(mon, call')
    /\ UNCHANGED <<second, exit, calc, urlParts, walletUrl, parsed, ledgerDevices, holders, cache, exitHooks, opened>>

\* getPublicKey returns in the loops of searchDerivedPathFromPubkey.
SearchReturns ==
    /\ exit.status = "running"
    /\ call.pc = "awaitSearch"
    /\ LET ledgerPubkey == getPublicKey(call.pending.device, call.pending.path)
           matched == ledgerPubkey = call.pubkey.value
           seen == [mon EXCEPT !.searchMatched = @ \/ matched,
                               !.matchAt = IF ~mon.searchMatched /\ matched
                                           THEN <<call.pending.device, call.pending.path>>
                                           ELSE @]
       IN  /\ call' = SearchStep(call, ledgerPubkey)
           /\ mon' = Observe(seen, call')
    /\ UNCHANGED <<second, exit, calc, urlParts, walletUrl, parsed, ledgerDevices, holders, cache, exitHooks, opened>>

\* getPublicKey returns in the last statement of getSolanaApi, which returns
\* the transport, the path and the key.
FinalReturns ==
    /\ exit.status = "running"
    /\ call.pc = "awaitFinal"
    /\ call' = FinishCall(call,
                   [status |-> "ok", transport |-> call.transport,
                    derivedPath |-> call.derivedPath,
                    pubkey |-> Defined(getPublicKey(call.pending.device, call.pending.path)),
                    names |-> <<>>])
    /\ mon' = mon
    /\ UNCHANGED <<second, exit, calc, urlParts, walletUrl, parsed, ledgerDevices, holders, cache, exitHooks, opened>>

\* The connected devices and what they report: at most two <<device, path>>
\* report the target key.
Init ==
    /\ urlParts = NoParts
    /\ walletUrl = <<>>
    /\ parsed = NotParsed
    /\ \E n \in 0..MaxDevices :
        /\ ledgerDevices = [i \in 1..n |-> DevicePath(i)]
        /\ LET places == {DevicePath(i) : i \in 1..n} \X HolderPaths
           IN  holders \in {{}} \cup {{a, b} : a \in places, b \in places}
    /\ cache = <<>>
    /\ exitHooks = <<>>
    /\ opened = <<>>
    /\ call = IdleCall
    /\ mon = IdleMon
    /\ calc = NoCalc
    /\ exit = NotExiting
    /\ second = IdleCall

SearchBounds(max) == {UndefinedNumber} \cup {Defined(i) : i \in 0..max}

Next ==
    \/ \E pubkey \in {NoKey, Defined(TargetKey)}, derivedPath \in GivenPaths :
           CallGetSolanaApi(pubkey, derivedPath)
    \/ \E heuristicDepth \in SearchBounds(MaxSearchDepth),
          heuristicWide \in SearchBounds(MaxSearchWide) :
           CallSearchDerivedPathFromPubkey(Defined(TargetKey), heuristicDepth, heuristicWide)
    \/ OpenReturns
    \/ GivenReturns
    \/ SearchReturns
    \/ FinalReturns

Spec == Init /\ [][Next]_vars

(***************************************************************************)
(* Properties of the resolution of the device and the path                 *)
(* (specification Spec)                                                    *)
(***************************************************************************)

\* getSolanaApi was called with a public key and devices are connected.
Resolving ==
    /\ call.op = "getSolanaApi"
    /\ call.pubkey.defined
    /\ Len(ledgerDevices) > 0

\* The paths of the candidate suffixes of every search space, computed once.
CandidatePathsTable ==
    [dw \in SearchSpaces |->
        [i \in 1..Len(CombinationsTable[dw]) |-> SuffixPath(CombinationsTable[dw][i])]]

\* The paths of the search space of the call, in the order of the candidates.
CandidatePaths ==
    LET space == SearchSpaceOf(call)
    IN  IF <<space.depth, space.wide>> \in SearchSpaces
        THEN CandidatePathsTable[<<space.depth, space.wide>>]
        ELSE [i \in 1..Len(CandidatesOf(call)) |-> SuffixPath(CandidatesOf(call)[i])]

\* The index of the candidate suffix whose path is the path, 0 when the path
\* is not of the search space of the call.
CandidateIndex(path) ==
    LET found == {i \in 1..Len(CandidatePaths) : CandidatePaths[i] = path}
    IN  IF found = {} THEN 0 ELSE CHOOSE i \in found : \A j \in found : i <= j

DeviceIndex(device) == CHOOSE i \in 1..Len(ledgerDevices) : ledgerDevices[i] = device

\* A device reports the target at the given path or at a path of the search space.
TargetReported ==
    \E h \in holders : h[2] = call.argPath \/ CandidateIndex(h[2]) # 0

\* C1: the resolution with a public key fails with the pubkey-not-found error
\* only after every device was asked for the given path and for the path of
\* every candidate suffix of the search space, no answer being the target; when
\* a device reports the target at the given path or at a path of the search
\* space the resolution succeeds.  The error names the public key and the
\* given path.
C1_NotFoundOnlyAfterExhaustion ==
    (Resolving /\ call.pc = "done")
    => /\ call.result.status \in {"ok", "PubkeyNotFound"}
       /\ call.result.status = "PubkeyNotFound"
          => /\ mon.given = [i \in 1..Len(ledgerDevices) |->
                                <<ledgerDevices[i], call.argPath>>]
             /\ mon.searchCount = Len(ledgerDevices) * Len(CandidatesOf(call))
             /\ mon.searchInOrder
             /\ ~mon.searchMatched
             /\ ~TargetReported
             /\ call.result.names = <<PK_q9XW, call.argPath>>
       /\ TargetReported => call.result.status = "ok"

\* With two devices, one of which reports the target at a path outside the
\* search space of the given path, the resolution failed.
C1_Witness ==
    /\ Resolving
    /\ call.pc = "done"
    /\ call.result.status = "PubkeyNotFound"
    /\ Len(ledgerDevices) = 2
    /\ call.argPath = Path_0_1
    /\ holders # {}
    /\ mon.searchCount = 2 * Len(CandidatesOf(call))

\* The search returned a device and a path.
SearchFound ==
    \/ /\ call.op = "searchDerivedPathFromPubkey"
       /\ call.pc = "done"
       /\ call.result.status = "found"
    \/ /\ call.op = "getSolanaApi"
       /\ call.pc = "awaitFinal" \/ (call.pc = "done" /\ call.result.status = "ok")
       /\ mon.searchCount > 0

\* The device and the path the search returned.
SearchResult ==
    IF call.op = "searchDerivedPathFromPubkey"
    THEN <<call.result.transport.value.path, call.result.derivedPath>>
    ELSE <<call.transport.value.path, call.derivedPath>>

\* The k-th request of the nested order: the devices in the order of their
\* enumeration and, for each device, the candidate paths in their order.
NestedRequest(k) ==
    LET paths == CandidatePaths
    IN  <<ledgerDevices[((k - 1) \div Len(paths)) + 1], paths[((k - 1) % Len(paths)) + 1]>>

\* The place in the nested order of the request to the device for the
\* candidate path of the index.
NestedRank(device, index) == (DeviceIndex(device) - 1) * Len(CandidatePaths) + index

\* C2: the search asks the devices in the order of their enumeration and, for
\* each device, the paths "44'/501'" joined by '/' with the segments of the
\* candidate suffixes in the order of generateAllCombinations; it returns the
\* first device and path of that order whose answer is the target, and asks
\* nothing after that answer.
C2_SearchNestedOrderFirstMatch ==
    /\ mon.searchInOrder
    /\ ~mon.probeAfterMatch
    /\ call.pc = "awaitSearch"
       => /\ <<call.pending.device, call.pending.path>> = NestedRequest(mon.searchCount)
          /\ ~mon.searchMatched
    /\ SearchFound
       => /\ mon.searchMatched
          /\ SearchResult = mon.matchAt
          /\ SearchResult = NestedRequest(mon.searchCount)
          /\ SearchResult \in holders
          /\ \A h \in holders :
                 LET index == CandidateIndex(h[2])
                 IN  index # 0 => mon.searchCount <= NestedRank(h[1], index)
    /\ (call.pc = "done" /\ call.result.status \in {"null", "PubkeyNotFound"})
       => ~mon.searchMatched

\* Two devices report the target in the search space, the second device at a
\* path that comes before the path of the first: the search returned the
\* first device.
C2_Witness ==
    /\ SearchFound
    /\ call.pc = "done"
    /\ Len(ledgerDevices) = 2
    /\ holders = {<<DevicePath(1), Path_0_1>>, <<DevicePath(2), SOLANA_BIP44_BASE_PATH>>}
    /\ SearchResult = <<DevicePath(1), Path_0_1>>
    /\ mon.searchCount > 1

\* The devices that report the target at the given path.
GivenHolders == {i \in 1..Len(ledgerDevices) : <<ledgerDevices[i], call.argPath>> \in holders}

FirstGivenHolder == CHOOSE i \in GivenHolders : \A j \in GivenHolders : i <= j

\* C3: when getSolanaApi is given a public key and a device reports it at the
\* given path, the first such device of the enumeration is returned with the
\* given path unchanged; the devices after it are not asked and the search
\* is not started.
C3_FirstDeviceAtGivenPath ==
    (Resolving /\ GivenHolders # {})
    => /\ mon.searchCount = 0
       /\ call.pc # "awaitSearch"
       /\ Len(mon.given) <= FirstGivenHolder
       /\ \A j \in 1..Len(mon.given) : mon.given[j] = <<ledgerDevices[j], call.argPath>>
       /\ \A j \in 1..Len(mon.final) :
              mon.final[j] = <<ledgerDevices[FirstGivenHolder], call.argPath>>
       /\ call.pc \in {"awaitFinal", "done"}
          => /\ Len(mon.given) = FirstGivenHolder
             /\ call.transport = Defined(cache[ledgerDevices[FirstGivenHolder]])
             /\ call.derivedPath = call.argPath
       /\ call.pc = "done"
          => /\ call.result.status = "ok"
             /\ call.result.transport = Defined(cache[ledgerDevices[FirstGivenHolder]])
             /\ call.result.derivedPath = call.argPath
             /\ call.result.pubkey = Defined(TargetKey)

\* Both of two devices report the target at the given path 44'/501'/0/1: the
\* first was returned, the second was not asked.
C3_Witness ==
    /\ Resolving
    /\ call.pc = "done"
    /\ call.argPath = Path_0_1
    /\ GivenHolders = {1, 2}
    /\ call.result.status = "ok"
    /\ call.result.transport.value.path = DevicePath(1)
    /\ mon.given = <<<<DevicePath(1), Path_0_1>>>>

\* The transports opened since the call began.
OpenedByCall == SubSeq(opened, mon.openedAtCall + 1, Len(opened))

\* C4: when getSolanaApi is given no public key it opens, or takes from the
\* cache, the first device only; every other device is left unopened and is in
\* the cache only if it was before the call; no search is made and the path
\* returned is the path given.
C4_NoPubkeyFirstDeviceOnly ==
    (/\ call.op = "getSolanaApi"
     /\ ~call.pubkey.defined
     /\ Len(ledgerDevices) > 0)
    => /\ mon.given = <<>>
       /\ mon.searchCount = 0
       /\ call.pc \in {"awaitOpen", "awaitFinal", "done"}
       /\ call.pc = "awaitOpen" => call.pending.device = ledgerDevices[1]
       /\ \A j \in 1..Len(OpenedByCall) : OpenedByCall[j].path = ledgerDevices[1]
       /\ Len(OpenedByCall) <= (IF ledgerDevices[1] \in mon.cacheAtCall THEN 0 ELSE 1)
       /\ \A i \in 2..Len(ledgerDevices) :
              ledgerDevices[i] \in DOMAIN cache <=> ledgerDevices[i] \in mon.cacheAtCall
       /\ \A j \in 1..Len(mon.final) : mon.final[j] = <<ledgerDevices[1], call.argPath>>
       /\ call.pc = "done"
          => /\ call.result.status = "ok"
             /\ call.result.transport = Defined(cache[ledgerDevices[1]])
             /\ call.result.derivedPath = call.argPath
             /\ mon.final = <<<<ledgerDevices[1], call.argPath>>>>

\* With two devices and an empty cache, the call without a public key returned
\* the first device and the given path; the second device is not in the cache.
C4_Witness ==
    /\ call.op = "getSolanaApi"
    /\ ~call.pubkey.defined
    /\ call.pc = "done"
    /\ Len(ledgerDevices) = 2
    /\ mon.cacheAtCall = {}
    /\ DOMAIN cache = {DevicePath(1)}
    /\ Len(opened) = 1
    /\ call.result.status = "ok"
    /\ call.result.derivedPath = Path_0_1

(***************************************************************************)
(* The texts given to parseWalletUrl                                       *)
(***************************************************************************)

\* Largest number of segments of a key made of numbers.
MaxSegments == 3

USB_LEDGER == WALLET_URL_IDENTIFIER \o LEDGER

USB_TREZOR == WALLET_URL_IDENTIFIER \o TREZOR

\* What an url begins with: the two kinds, other kinds, kinds that only begin
\* as a known kind, no url at all, leading white space.
UrlHeads ==
    {<<"u","s","b",":","/","/","l","e","d","g","e","r">>,
     <<"u","s","b",":","/","/","t","r","e","z","o","r">>,
     <<"u","s","b",":","/","/","r","o","s","i","e","-","c","o","t","t","o","n">>,
     <<"u","s","b",":","/","/","L","e","d","g","e","r">>,
     <<"u","s","b",":","/","/","l","e","d","g","e","r","s">>,
     <<"m","/","4","4","/","5","0","1","/","0","/","0">>,
     <<" "," ","u","s","b",":","/","/","t","r","e","z","o","r">>}

\* What follows the kind up to the query: nothing, slashes, a public key (with
\* and without the slashes around it), a text that is no public key.
UrlIdentifiers ==
    {<<>>, <<"/">>, <<"/","/">>, <<"/">> \o PK_q9XW, <<"/">> \o PK_q9XW \o <<"/">>, PK_q9XW,
     <<"/","e","l","a","n","o","r">>, <<"/","e","a","n","o","r">>,
     <<"/">> \o PK_q9XW \o <<"k","e","y","=","0">>}

\* The text from the '?' on, as written.
UrlQueries ==
    {<<>>,
     <<"?">>,
     <<"?","k","e","y","=">>,
     <<"?","k","e","y","=","0","/","g","a","f","f","e","r">>,
     <<"?","k","e","y","=","1","a">>,
     <<"?","k","e","y","=","a","1","/","0">>,
     <<"?","k","e","y","=","0","?","x">>,
     <<"?","s","a","m","w","i","s","e","-","g","a","m","g","e","e","=","0">>,
     <<"?","2","c","T","b","f","2","T","J","y","3","B","T","u","G","q","A","b","B","5","H","R","T","L","Y","e","r","o","B","Y","n","j","v","Y","m","n","v","m","2","3","q","F","W","P","t">>,
     <<"?","k","e","y","=","0","/">>,
     <<"?","k","e","y","=","0","/","/","1">>,
     <<"?","k","e","y","=","4","4","'","/","5","0","1","'","/">>,
     <<"?","k","e","y","=","4","4","/","5","0","1">>,
     <<"?"," ","k","e","y","=","0">>,
     <<"?","x">>}

KeyPrefixes == {<<>>, <<"4","4","'","/","5","0","1","'","/">>, <<"4","4","/","5","0","1","/">>}

KeyNumbers == {<<"0">>, <<"1">>, <<"4","4">>, <<"5","0","1">>}

\* The sequences of 1 to MaxSegments numbers.
KeySegments == UNION {[1..n -> KeyNumbers] : n \in 1..MaxSegments}

SpaceStyles == {"none", "before", "after"}

\* A segment with the white space of the style around it.
Spaced(segment, style) ==
    IF style = "before" THEN <<" ">> \o segment
    ELSE IF style = "after" THEN segment \o <<" ">>
    ELSE segment

\* The urls written as such, and the urls whose key is made of numbers.
UrlParts ==
    {[head |-> h, id |-> i, form |-> "raw", raw |-> q,
      prefix |-> <<>>, segments |-> <<>>, space |-> "none"] :
        h \in UrlHeads, i \in UrlIdentifiers, q \in UrlQueries}
    \cup
    {[head |-> h, id |-> i, form |-> "key", raw |-> <<>>,
      prefix |-> p, segments |-> g, space |-> w] :
        h \in {USB_LEDGER, USB_TREZOR}, i \in {<<>>, <<"/">> \o PK_q9XW},
        p \in KeyPrefixes, g \in KeySegments, w \in SpaceStyles}

\* The key of an url whose key is made of numbers.
KeyText(parts) ==
    parts.prefix
    \o Join([k \in 1..Len(parts.segments) |-> Spaced(parts.segments[k], parts.space)], "/")

\* The text of an url.
UrlText(parts) ==
    parts.head \o parts.id
    \o (IF parts.form = "key" THEN <<"?","k","e","y","=">> \o KeyText(parts) ELSE parts.raw)

\* parseWalletUrl(walletUrl)
ParseWalletUrl ==
    /\ parsed.status = "pending"
    /\ walletUrl = UrlText(urlParts)
    /\ parsed' = parseWalletUrl(walletUrl)
    /\ UNCHANGED <<second, exit, calc, urlParts, walletUrl, ledgerDevices, holders, cache, exitHooks, opened, call, mon>>

InitParse ==
    /\ urlParts \in UrlParts
    /\ walletUrl = UrlText(urlParts)
    /\ parsed = NotParsed
    /\ ledgerDevices = <<>>
    /\ holders = {}
    /\ cache = <<>>
    /\ exitHooks = <<>>
    /\ opened = <<>>
    /\ call = IdleCall
    /\ mon = IdleMon
    /\ calc = NoCalc
    /\ exit = NotExiting
    /\ second = IdleCall

NextParse == ParseWalletUrl

SpecParse == InitParse /\ [][NextParse]_vars

(***************************************************************************)
(* Properties of parseWalletUrl (specification SpecParse)                  *)
(***************************************************************************)

\* parseWalletUrl returned or threw.
Parsed == parsed.status # "pending"

\* The urls that begin with 'usb://' and one of the two kinds.
KnownHeads == {USB_LEDGER, USB_TREZOR, <<" "," ">> \o USB_TREZOR}

KindOfHead(head) == IF Trim(head) = USB_LEDGER THEN LEDGER ELSE TREZOR

\* No identifier, or the public key q9XW..., with the slashes allowed around it.
ValidIdentifiers == {<<>>, <<"/">>, <<"/">> \o PK_q9XW, <<"/">> \o PK_q9XW \o <<"/">>}

\* The wallet identifier a valid identifier part stands for.
IdentifierOf(id) == IF id \in {<<>>, <<"/">>} THEN Undefined ELSE Defined(TargetKey)

\* A non-empty text of decimal digits.
AllDigits(text) == text # <<>> /\ \A i \in 1..Len(text) : text[i] \in DigitSet

\* The four spellings of the BIP44 prefix.
Bip44Prefixes ==
    {<<"4","4">> \o q1 \o <<"/","5","0","1">> \o q2 \o <<"/">> :
        q1 \in {<<>>, <<"'">>}, q2 \in {<<>>, <<"'">>}}

StartsWithBip44Prefix(text) == \E prefix \in Bip44Prefixes : StartsWith(text, prefix)

\* The key without the BIP44 prefix it may begin with.
KeyBody(key) ==
    IF StartsWithBip44Prefix(key)
    THEN Drop(key, Len(CHOOSE prefix \in Bip44Prefixes :
                           /\ StartsWith(key, prefix)
                           /\ \A other \in Bip44Prefixes :
                                  StartsWith(key, other) => Len(other) <= Len(prefix)))
    ELSE key

\* The url was written with the query '?key=<key>', the key not empty.
HasRawKey ==
    /\ urlParts.form = "raw"
    /\ StartsWith(urlParts.raw, <<"?","k","e","y","=">>)
    /\ Len(urlParts.raw) > 5

RawKey == Drop(urlParts.raw, 5)

\* The segments of a derived path after "44'/501'".
PathSegments(path) ==
    IF path = SOLANA_BIP44_BASE_PATH THEN <<>>
    ELSE Split(Drop(path, Len(SOLANA_BIP44_BASE_PATH) + 1), "/")

\* C5: a key one of whose '/'-separated components is, after trimming, not a
\* text of decimal digits only (empty components, '1a', '0?x') is rejected with
\* the error 'a set of numbers delimited with /', so that every segment after
\* "44'/501'" of the path of an accepted url is made of decimal digits only.
C5_NonNumericKeyRejected ==
    Parsed =>
        /\ (/\ urlParts.head \in KnownHeads
            /\ urlParts.id \in ValidIdentifiers
            /\ HasRawKey
            /\ \E k \in 1..Len(Split(KeyBody(RawKey), "/")) :
                   ~AllDigits(Trim(Split(KeyBody(RawKey), "/")[k])))
           => parsed.status = "InvalidDerivedPath"
        /\ parsed.status = "ok"
           => \A k \in 1..Len(PathSegments(parsed.parsedDerivedPath)) :
                  AllDigits(PathSegments(parsed.parsedDerivedPath)[k])

\* The text begins with 'usb://' and the token 'ledger' or 'trezor', the token
\* ending at the end of the text, at '/' or at '?'.
KindTokenOf(text) ==
    {kind \in {LEDGER, TREZOR} :
        /\ StartsWith(text, WALLET_URL_IDENTIFIER \o kind)
        /\ \/ Len(text) = Len(WALLET_URL_IDENTIFIER \o kind)
           \/ text[Len(WALLET_URL_IDENTIFIER \o kind) + 1] \in {"/", "?"}}

\* C6: every url that does not begin with 'usb://' and exactly the token
\* 'ledger' or 'trezor' fails with 'Invalid hardware wallet url'; a kind that
\* only begins as 'ledger' or 'trezor' is not taken for that kind.
C6_UnknownKindRejected ==
    Parsed =>
        /\ KindTokenOf(Trim(walletUrl)) = {} => parsed.status = "InvalidHardwareWalletUrl"
        /\ parsed.status = "ok" => parsed.walletType \in KindTokenOf(Trim(walletUrl))

\* The result of an url whose key is the numbers n1/.../nk: the path
\* "44'/501'/n1/.../nk", the kind and the identifier of the url.
KeyResultOf(parts) ==
    ParseOk(KindOfHead(parts.head), IdentifierOf(parts.id),
            SOLANA_BIP44_BASE_PATH \o <<"/">> \o Join(parts.segments, "/"))

\* C7 as stated: every key n1/.../nk of numbers, with or without white space
\* around them, with or without the prefix "44'/501'/" or "44/501/", gives the
\* path "44'/501'/n1/.../nk" and the kind and identifier of the url.
C7_KeyOfNumbers ==
    (Parsed /\ urlParts.form = "key") => parsed = KeyResultOf(urlParts)

\* C7, amended: the same, but for the keys written without the prefix whose
\* own first numbers read as the prefix (44/501/...); and the key with a
\* prefix gives what the key without it gives.
C7_KeyOfNumbersNotReadAsPrefix ==
    (/\ Parsed
     /\ urlParts.form = "key"
     /\ ~(urlParts.prefix = <<>> /\ StartsWithBip44Prefix(KeyText(urlParts))))
    => /\ parsed = KeyResultOf(urlParts)
       /\ \A prefix \in KeyPrefixes :
              LET other == [urlParts EXCEPT !.prefix = prefix]
              IN  (prefix = <<>> /\ StartsWithBip44Prefix(KeyText(other)))
                  \/ parseWalletUrl(UrlText(other)) = parsed

\* A key of three numbers with white space, written after the prefix without
\* quotes, of an url with an identifier, was parsed.
C7_Witness ==
    /\ Parsed
    /\ urlParts.form = "key"
    /\ urlParts.prefix = <<"4","4","/","5","0","1","/">>
    /\ urlParts.segments = <<<<"0">>, <<"4","4">>, <<"1">>>>
    /\ urlParts.space = "before"
    /\ urlParts.id # <<>>
    /\ parsed.status = "ok"
    /\ parsed.parsedDerivedPath =
           <<"4","4","'","/","5","0","1","'","/","0","/","4","4","/","1">>

\* C8: for both kinds and every valid identifier part, the url with the empty
\* key '?key=' parses to what the url without a query parses to: the path
\* "44'/501'", the kind, and the identifier, undefined when the url has none.
C8_EmptyKeyAsNoQuery ==
    (/\ Parsed
     /\ urlParts.form = "raw"
     /\ urlParts.head \in KnownHeads
     /\ urlParts.id \in ValidIdentifiers
     /\ urlParts.raw \in {<<>>, <<"?","k","e","y","=">>})
    => /\ parsed = ParseOk(KindOfHead(urlParts.head), IdentifierOf(urlParts.id),
                           SOLANA_BIP44_BASE_PATH)
       /\ parsed = parseWalletUrl(UrlText([urlParts EXCEPT !.raw = <<>>]))

\* The url 'usb://trezor/q9XW...?key=' was parsed.
C8_Witness ==
    /\ Parsed
    /\ urlParts.form = "raw"
    /\ urlParts.head = USB_TREZOR
    /\ urlParts.id = <<"/">> \o PK_q9XW
    /\ urlParts.raw = <<"?","k","e","y","=">>
    /\ parsed.status = "ok"
    /\ parsed.walletIdentifier = Defined(TargetKey)

\* The identifier part of the url is written after 'usb://<kind>/'.
HasIdentifierPart ==
    /\ urlParts.head \in KnownHeads
    /\ urlParts.id # <<>>
    /\ Head(urlParts.id) = "/"

IdentifierToken == Drop(urlParts.id, 1)

\* The text is the base58 text of a public key of 32 bytes.
IsPubkeyText(text) ==
    /\ \A i \in 1..Len(text) : text[i] \in Base58Set
    /\ text # <<>>
    /\ Len(Base58Decode(text)) = PUBLIC_KEY_LENGTH

\* C9 as stated: for both kinds, an identifier part that is not empty and is
\* not the base58 text of a public key of 32 bytes makes parseWalletUrl fail
\* with the invalid-pubkey error, which names the identifier.
C9_InvalidIdentifierRejected ==
    (/\ Parsed
     /\ HasIdentifierPart
     /\ IdentifierToken # <<>>
     /\ ~IsPubkeyText(IdentifierToken))
    => /\ parsed.status = "InvalidPubkey"
       /\ parsed.names = IdentifierToken

\* The query of the url is empty, '?' alone, or 'key=' and a key.
QueryWellFormed ==
    \/ urlParts.form = "key"
    \/ urlParts.raw \in {<<>>, <<"?">>}
    \/ StartsWith(urlParts.raw, <<"?","k","e","y","=">>)

\* C9, amended: when the query is well formed, an identifier part that, without
\* the '/' and spaces it ends with, is not empty and is not the base58 text of a
\* public key of 32 bytes makes parseWalletUrl fail with the invalid-pubkey
\* error, which names the identifier as written.
C9_InvalidIdentifierRejectedAfterQuery ==
    (/\ Parsed
     /\ HasIdentifierPart
     /\ QueryWellFormed
     /\ StripEnd(IdentifierToken, {"/", " "}) # <<>>
     /\ ~IsPubkeyText(StripEnd(IdentifierToken, {"/", " "})))
    => /\ parsed.status = "InvalidPubkey"
       /\ parsed.names = IdentifierToken

\* The url 'usb://ledger/eanor?key=0/gaffer', whose identifier is base58 text
\* but of 4 bytes, and whose key is no key either, was rejected for its identifier.
C9_Witness ==
    /\ Parsed
    /\ urlParts.head = USB_LEDGER
    /\ urlParts.id = <<"/","e","a","n","o","r">>
    /\ urlParts.raw = <<"?","k","e","y","=","0","/","g","a","f","f","e","r">>
    /\ parsed.status = "InvalidPubkey"
    /\ parsed.names = <<"e","a","n","o","r">>

\* C10: for both kinds, with or without an identifier, an url whose text after
\* '?' is not empty and is not 'key=' and a key fails with 'Invalid wallet url'.
C10_MalformedQueryRejected ==
    (/\ Parsed
     /\ urlParts.head \in KnownHeads
     /\ urlParts.id = <<>> \/ Head(urlParts.id) = "/"
     /\ urlParts.form = "raw"
     /\ Len(urlParts.raw) > 1
     /\ Head(urlParts.raw) = "?"
     /\ ~StartsWith(Drop(urlParts.raw, 1), <<"k","e","y","=">>))
    => parsed.status = "InvalidWalletUrl"

(***************************************************************************)
(* The pure functions called on their own (specification SpecCalc)         *)
(***************************************************************************)

\* Largest bounds given to generateAllCombinations.
MaxCombinationDepth == 3

MaxCombinationLength == 3

\* A bound of generateAllCombinations: undefined, or a number.
CombinationBounds(max) == {UndefinedNumber} \cup {Defined(i) : i \in 0..max}

\* The calls of generateAllCombinations(maxDepth, maxLength).
CombinationCalls ==
    {[fn |-> "generateAllCombinations",
      args |-> [maxDepth |-> d, maxLength |-> l],
      status |-> "called", result |-> <<>>] :
        d \in CombinationBounds(MaxCombinationDepth) \cup {Defined(NaN)},
        l \in CombinationBounds(MaxCombinationLength)}

\* generateAllCombinations(maxDepth, maxLength) returns.
GenerateAllCombinations ==
    /\ calc.fn = "generateAllCombinations"
    /\ calc.status = "called"
    /\ calc' = [calc EXCEPT !.status = "returned",
                            !.result = generateAllCombinations(calc.args.maxDepth,
                                                               calc.args.maxLength)]
    /\ UNCHANGED <<second, exit, urlParts, walletUrl, parsed, ledgerDevices, holders, cache, exitHooks,
                   opened, call, mon>>

\* Largest number of segments after the prefix of a path given to
\* obtainAccountDiscoveryDepthAndWide.
MaxSuffixLength == 3

\* The numbers of those segments, and the defaults given.
SuffixNumbers == {0, 1, 15, 25}

SpanDefaultDepths == {0, 1, 20}

SpanDefaultWides == {0, 2, 4}

\* The beginnings of a derivation path: with and without the leading 'm',
\* with and without the quotes.
PathBeginnings ==
    {<<"4","4","/","5","0","1">>,
     <<"4","4","'","/","5","0","1","'">>,
     <<"m","/","4","4","/","5","0","1">>,
     <<"m","/","4","4","'","/","5","0","1","'">>,
     <<"m"," ","/","4","4","'","/","5","0","1","'">>}

RECURSIVE PathText(_, _)
\* The text of a derivation path: its beginning, then '/' and the decimal
\* text of each number of the suffix.
PathText(beginning, suffix) ==
    IF suffix = <<>> THEN beginning
    ELSE PathText(beginning, SubSeq(suffix, 1, Len(suffix) - 1))
         \o <<"/">> \o NatToString(suffix[Len(suffix)])

\* The calls of obtainAccountDiscoveryDepthAndWide(derivedPath, defaultDepth, defaultWide).
SpanCalls ==
    {[fn |-> "obtainAccountDiscoveryDepthAndWide",
      args |-> [beginning |-> b, suffix |-> x, derivedPath |-> PathText(b, x),
                defaultDepth |-> d, defaultWide |-> w],
      status |-> "called", result |-> <<>>] :
        b \in PathBeginnings,
        x \in UNION {[1..n -> SuffixNumbers] : n \in 0..MaxSuffixLength},
        d \in SpanDefaultDepths, w \in SpanDefaultWides}

\* obtainAccountDiscoveryDepthAndWide(derivedPath, defaultDepth, defaultWide) returns.
ObtainAccountDiscoveryDepthAndWide ==
    /\ calc.fn = "obtainAccountDiscoveryDepthAndWide"
    /\ calc.status = "called"
    /\ calc' = [calc EXCEPT !.status = "returned",
                            !.result = obtainAccountDiscoveryDepthAndWide(
                                           calc.args.derivedPath,
                                           calc.args.defaultDepth,
                                           calc.args.defaultWide)]
    /\ UNCHANGED <<second, exit, urlParts, walletUrl, parsed, ledgerDevices, holders, cache, exitHooks,
                   opened, call, mon>>

CalcCalls == CombinationCalls \cup SpanCalls

InitCalc ==
    /\ calc \in CalcCalls
    /\ urlParts = NoParts
    /\ walletUrl = <<>>
    /\ parsed = NotParsed
    /\ ledgerDevices = <<>>
    /\ holders = {}
    /\ cache = <<>>
    /\ exitHooks = <<>>
    /\ opened = <<>>
    /\ call = IdleCall
    /\ mon = IdleMon
    /\ exit = NotExiting
    /\ second = IdleCall

NextCalc ==
    \/ GenerateAllCombinations
    \/ ObtainAccountDiscoveryDepthAndWide

SpecCalc == InitCalc /\ [][NextCalc]_vars

(***************************************************************************)
(* Properties of the pure functions (specification SpecCalc)               *)
(***************************************************************************)

RECURSIVE Power(_, _)
Power(base, exponent) == IF exponent = 0 THEN 1 ELSE base * Power(base, exponent - 1)

\* The tuples of the length over 0..depth in lexicographic order: the r-th is
\* the number r - 1 written with `length` digits in base depth + 1.
TuplesOfLength(depth, length) ==
    [r \in 1..Power(depth + 1, length) |->
        [p \in 1..length |-> ((r - 1) \div Power(depth + 1, length - p)) % (depth + 1)]]

RECURSIVE TuplesFromLength(_, _, _)
\* The tuples of the lengths from `length` to maxLength, by increasing length.
TuplesFromLength(depth, maxLength, length) ==
    IF length > maxLength THEN <<>>
    ELSE TuplesOfLength(depth, length) \o TuplesFromLength(depth, maxLength, length + 1)

RECURSIVE SumOfPowers(_, _)
\* (depth + 1)^1 + ... + (depth + 1)^length
SumOfPowers(depth, length) ==
    IF length = 0 THEN 0 ELSE Power(depth + 1, length) + SumOfPowers(depth, length - 1)

\* generateAllCombinations returned for two defined bounds that are numbers.
CombinationsReturned ==
    /\ calc.fn = "generateAllCombinations"
    /\ calc.status = "returned"
    /\ calc.args.maxDepth.defined
    /\ calc.args.maxLength.defined
    /\ calc.args.maxDepth.value # NaN

\* C11: for defined bounds maxDepth >= 0 and maxLength >= 0,
\* generateAllCombinations returns [] first and then, for each length from 1 to
\* maxLength in increasing order, every tuple of that length over 0..maxDepth
\* in lexicographic order, each once; the list has
\* 1 + (maxDepth+1)^1 + ... + (maxDepth+1)^maxLength elements.
C11_CombinationsInOrder ==
    CombinationsReturned
    => LET depth == calc.args.maxDepth.value
           length == calc.args.maxLength.value
       IN  /\ calc.result = <<<<>>>> \o TuplesFromLength(depth, length, 1)
           /\ Len(calc.result) = 1 + SumOfPowers(depth, length)
           /\ \A i, j \in 1..Len(calc.result) : calc.result[i] = calc.result[j] => i = j

\* generateAllCombinations(2, 2) returned its 13 combinations, [0, 0] the fifth
\* and [2, 2] the last.
C11_Witness ==
    /\ CombinationsReturned
    /\ calc.args.maxDepth = Defined(2)
    /\ calc.args.maxLength = Defined(2)
    /\ Len(calc.result) = 13
    /\ calc.result[1] = <<>>
    /\ calc.result[5] = <<0, 0>>
    /\ calc.result[13] = <<2, 2>>

\* C12: generateAllCombinations returns the empty list, without even the empty
\* suffix [], whenever maxDepth or maxLength is undefined, whatever the other
\* bound is; it throws nothing.
C12_UndefinedBoundNoCombination ==
    (/\ calc.fn = "generateAllCombinations"
     /\ calc.status # "called"
     /\ ~calc.args.maxDepth.defined \/ ~calc.args.maxLength.defined)
    => /\ calc.status = "returned"
       /\ calc.result = <<>>

\* generateAllCombinations(3, undefined) returned the empty list.
C12_Witness ==
    /\ calc.fn = "generateAllCombinations"
    /\ calc.status = "returned"
    /\ calc.args.maxDepth = Defined(3)
    /\ ~calc.args.maxLength.defined
    /\ calc.result = <<>>

\* The largest number of a set of natural numbers and a number.
Largest(number, numbers) ==
    CHOOSE n \in numbers \cup {number} : \A other \in numbers \cup {number} : other <= n

\* C13: obtainAccountDiscoveryDepthAndWide, the leading 'm' if any and the two
\* segments of the prefix being left out, returns wide = max(defaultWide, number
\* of segments of the suffix) and depth = max(defaultDepth, largest number of
\* the suffix); the defaults unchanged when the suffix has no segment.
C13_SpanWidenedByPath ==
    (calc.fn = "obtainAccountDiscoveryDepthAndWide" /\ calc.status = "returned")
    => LET suffix == calc.args.suffix
       IN  /\ calc.result.wide = Largest(calc.args.defaultWide, {Len(suffix)})
           /\ calc.result.depth =
                  Largest(calc.args.defaultDepth, {suffix[i] : i \in 1..Len(suffix)})
           /\ suffix = <<>>
              => calc.result = [depth |-> calc.args.defaultDepth,
                                wide |-> calc.args.defaultWide]

\* obtainAccountDiscoveryDepthAndWide("m/44'/501'/0/15/1", 1, 2) returned
\* depth 15 and wide 3.
C13_Witness ==
    /\ calc.fn = "obtainAccountDiscoveryDepthAndWide"
    /\ calc.status = "returned"
    /\ calc.args.derivedPath =
           <<"m","/","4","4","'","/","5","0","1","'","/","0","/","1","5","/","1">>
    /\ calc.args.defaultDepth = 1
    /\ calc.args.defaultWide = 2
    /\ calc.result = [depth |-> 15, wide |-> 3]

(***************************************************************************)
(* The search space of a parsed path (specification SpecHint)              *)
(***************************************************************************)

\* The urls whose path is then given as the hint of a search: the urls
\* written as such, but for the key 44/501 (a search space of depth 501), and
\* the urls whose key is made of the numbers 0 and 1.
HintUrlParts ==
    {parts \in UrlParts :
        /\ parts.raw # <<"?","k","e","y","=","4","4","/","5","0","1">>
        /\ \A k \in 1..Len(parts.segments) : parts.segments[k] \in {<<"0">>, <<"1">>}}

HintDefaultDepths == {0, 1}

HintDefaultWides == {0, 2}

\* The search space of the path parseWalletUrl returned and the combinations
\* of that space: getHeuristicDepthAndWide as getSolanaApi calls it, or
\* obtainAccountDiscoveryDepthAndWide, then generateAllCombinations as
\* searchDerivedPathFromPubkey calls it.
HintSearchSpace(fn, defaultDepth, defaultWide) ==
    /\ parsed.status = "ok"
    /\ calc.fn = "none"
    /\ LET space == IF fn = "getHeuristicDepthAndWide"
                    THEN getHeuristicDepthAndWide(parsed.parsedDerivedPath,
                                                  defaultDepth, defaultWide)
                    ELSE obtainAccountDiscoveryDepthAndWide(parsed.parsedDerivedPath,
                                                            defaultDepth, defaultWide)
       IN  calc' = [fn |-> fn,
                    args |-> [derivedPath |-> parsed.parsedDerivedPath,
                              defaultDepth |-> defaultDepth, defaultWide |-> defaultWide],
                    status |-> "returned",
                    result |-> space,
                    combinations |-> generateAllCombinations(Defined(space.depth),
                                                             Defined(space.wide))]
    /\ UNCHANGED <<second, exit, urlParts, walletUrl, parsed, ledgerDevices, holders, cache, exitHooks,
                   opened, call, mon>>

InitHint ==
    /\ urlParts \in HintUrlParts
    /\ walletUrl = UrlText(urlParts)
    /\ parsed = NotParsed
    /\ ledgerDevices = <<>>
    /\ holders = {}
    /\ cache = <<>>
    /\ exitHooks = <<>>
    /\ opened = <<>>
    /\ call = IdleCall
    /\ mon = IdleMon
    /\ calc = NoCalc
    /\ exit = NotExiting
    /\ second = IdleCall

NextHint ==
    \/ ParseWalletUrl
    \/ \E fn \in {"getHeuristicDepthAndWide", "obtainAccountDiscoveryDepthAndWide"},
          defaultDepth \in HintDefaultDepths, defaultWide \in HintDefaultWides :
           HintSearchSpace(fn, defaultDepth, defaultWide)

SpecHint == InitHint /\ [][NextHint]_vars

\* The search space of the path of an accepted url was computed.
HintReturned ==
    /\ calc.fn \in {"getHeuristicDepthAndWide", "obtainAccountDiscoveryDepthAndWide"}
    /\ calc.status = "returned"

\* The numbers of the segments of the path after "44'/501'", a segment that is
\* not made of digits only counting for no number.
HintNumbers ==
    LET segments == PathSegments(calc.args.derivedPath)
    IN  [k \in 1..Len(segments) |->
            IF AllDigits(segments[k]) THEN DigitsValue(segments[k], 0) ELSE NaN]

\* C14: for every path parseWalletUrl accepts, s1..sk being its segments after
\* the base path, and for any defaults, the search space of the path has
\* depth >= max(s1..sk), wide >= k, depth >= defaultDepth and
\* wide >= defaultWide, so that the suffix [s1..sk] is one of the combinations
\* of generateAllCombinations(depth, wide).
C14_HintWithinSearchSpace ==
    HintReturned
    => /\ \A k \in 1..Len(HintNumbers) : calc.result.depth >= HintNumbers[k]
       /\ calc.result.wide >= Len(HintNumbers)
       /\ calc.result.depth >= calc.args.defaultDepth
       /\ calc.result.wide >= calc.args.defaultWide
       /\ \E i \in 1..Len(calc.combinations) : calc.combinations[i] = HintNumbers

(***************************************************************************)
(* The resolution of the wallet of an url (specification SpecUrl)          *)
(***************************************************************************)

\* The keys of zeros and a last number, as the segments of the key.
KeysOfZeros == {<<<<"0">>, <<"3">>>>, <<<<"0">>, <<"0">>, <<"0">>, <<"3">>>>}

\* The urls of a ledger with such a key, with and without a public key.
ZeroKeyUrlParts ==
    {[head |-> USB_LEDGER, id |-> i, form |-> "key", raw |-> <<>>,
      prefix |-> <<>>, segments |-> g, space |-> "none"] :
        i \in {<<>>, <<"/">> \o PK_q9XW}, g \in KeysOfZeros}

Path_0_3 == SOLANA_BIP44_BASE_PATH \o <<"/","0","/","3">>

Path_0_0_0_3 == SOLANA_BIP44_BASE_PATH \o <<"/","0","/","0","/","0","/","3">>

Path_3_3_3_3 == SOLANA_BIP44_BASE_PATH \o <<"/","3","/","3","/","3","/","3">>

Path_4 == SOLANA_BIP44_BASE_PATH \o <<"/","4">>

\* Where the one device may report the public key of the url.
ZeroKeyHolderPaths == {Path_0_3, Path_0_0_0_3, Path_3_3_3_3, Path_4}

\* parseLedgerUrl(ledgerUrl): the public key and the derivation path of the
\* url, or the error thrown for it.  LedgerWallet.instance calls it and
\* nothing of the sources defines it: the url is taken to be parsed by the
\* grammar of parseWalletUrl, the identifier of the url being parsedPubkey.
parseLedgerUrl(ledgerUrl) ==
    LET located == parseWalletUrl(ledgerUrl)
    IN  [status |-> located.status, parsedPubkey |-> located.walletIdentifier,
         parsedDerivedPath |-> located.parsedDerivedPath, names |-> located.names]

\* LedgerWallet.instance(ledgerUrl) up to its first await: the url is parsed,
\* an error of the parsing is thrown before any device is asked; getSolanaApi
\* is called with the public key and the path of the url, heuristicDepth and
\* heuristicWide are left to their defaults.
LedgerWalletInstance ==
    /\ call.pc = "idle"
    /\ \E located \in {parseLedgerUrl(walletUrl)} :
           IF located.status = "ok"
           THEN CallGetSolanaApi(located.parsedPubkey, located.parsedDerivedPath)
           ELSE /\ exit.status = "running"
                /\ call' = FinishCall([IdleCall EXCEPT !.op = "instance"],
                                      [status |-> located.status, transport |-> NoTransport,
                                       derivedPath |-> <<>>, pubkey |-> NoKey,
                                       names |-> located.names])
                /\ UNCHANGED <<second, exit, calc, urlParts, walletUrl, parsed, ledgerDevices,
                               holders, cache, exitHooks, opened, mon>>

\* An url of a ledger whose key is not a number.
NotNumericKeyUrlParts ==
    [head |-> USB_LEDGER, id |-> <<>>, form |-> "key", raw |-> <<>>,
     prefix |-> <<>>, segments |-> <<<<"a">>>>, space |-> "none"]

InitUrl ==
    /\ urlParts \in ZeroKeyUrlParts \cup {NotNumericKeyUrlParts}
    /\ walletUrl = UrlText(urlParts)
    /\ parsed = NotParsed
    /\ ledgerDevices = <<DevicePath(1)>>
    /\ holders \in {{}} \cup {{<<DevicePath(1), path>>} : path \in ZeroKeyHolderPaths}
    /\ cache = <<>>
    /\ exitHooks = <<>>
    /\ opened = <<>>
    /\ call = IdleCall
    /\ mon = IdleMon
    /\ calc = NoCalc
    /\ exit = NotExiting
    /\ second = IdleCall

NextUrl ==
    \/ LedgerWalletInstance
    \/ OpenReturns
    \/ GivenReturns
    \/ SearchReturns
    \/ FinalReturns

SpecUrl == InitUrl /\ [][NextUrl]_vars

(***************************************************************************)
(* Properties of the resolution of the wallet of an url                    *)
(* (specification SpecUrl)                                                 *)
(***************************************************************************)

\* The suffix the search of the call is asking a device about.
ProbedSuffix == heuristicsCombinations(call)[call.cIdx]

\* C15: for an url with a public key and key=0/0/0/3 whose public key is not
\* at the path of the key, the search runs with wide 4 and depth 3: every
\* suffix it asks a device about has at most 4 segments and no segment above 3.
C15_ZeroKeyDefinesSearchSpace ==
    (/\ parseLedgerUrl(walletUrl).status = "ok"
     /\ parseLedgerUrl(walletUrl).parsedPubkey.defined
     /\ parseLedgerUrl(walletUrl).parsedDerivedPath = Path_0_0_0_3
     /\ call.pc = "awaitSearch")
    => /\ call.wide = Defined(4)
       /\ call.depth = Defined(3)
       /\ Len(ProbedSuffix) <= 4
       /\ \A k \in 1..Len(ProbedSuffix) : ProbedSuffix[k] <= 3

(***************************************************************************)
(* Properties of the search space, the cache and the devices               *)
(* (specification Spec)                                                    *)
(***************************************************************************)

\* The paths from "44'/501'" until "44'/501'/10/10/10": the base path and the
\* base path followed by 1 to 3 segments, each of 0..10.
DefaultSearchPaths ==
    {SuffixPath(suffix) : suffix \in UNION {[1..n -> 0..10] : n \in 0..3}}

\* The paths the search asks a device about when the depth is 10 and the wide 3.
DefaultCandidatePaths ==
    [i \in 1..Len(CombinationsTable[<<10, 3>>]) |->
        heuristicDerivedPath(CombinationsTable[<<10, 3>>][i])]

\* Those paths are pairwise different and are the paths until "44'/501'/10/10/10".
DefaultCandidatesExact ==
    /\ {DefaultCandidatePaths[i] : i \in 1..Len(DefaultCandidatePaths)} = DefaultSearchPaths
    /\ Len(DefaultCandidatePaths) = Cardinality(DefaultSearchPaths)

\* getSolanaApi was given a public key and the path "44'/501'", no device
\* reported the key at that path and the search began.
DefaultSearch ==
    /\ Resolving
    /\ call.argPath = SOLANA_BIP44_BASE_PATH
    /\ mon.searchCount > 0

\* C16: with a public key and no key in the url, the public key not being
\* found at "44'/501'", the search runs with depth 10 and wide 3: on each
\* device, in the order of the devices, it asks about exactly the base path
\* and the base path followed by 1 to 3 segments of 0..10, each once; the
\* resolution fails only after every device was asked about all of them.
C16_DefaultSearchSpace ==
    DefaultSearch
    => /\ call.depth = Defined(10)
       /\ call.wide = Defined(3)
       /\ DefaultCandidatesExact
       /\ mon.searchInOrder
       /\ mon.searchCount <= Len(ledgerDevices) * Cardinality(DefaultSearchPaths)
       /\ call.pc = "awaitSearch"
          => /\ call.pending.path = DefaultCandidatePaths[call.cIdx]
             /\ call.pending.path \in DefaultSearchPaths
             /\ call.pending.device = ledgerDevices[call.tIdx]
             /\ mon.searchCount = (call.tIdx - 1) * Len(DefaultCandidatePaths) + call.cIdx
       /\ (call.pc = "done" /\ call.result.status = "PubkeyNotFound")
          => mon.searchCount = Len(ledgerDevices) * Cardinality(DefaultSearchPaths)

\* Two devices, one of which reports the key at "44'/501'/11", were both asked
\* about the 1464 paths and the resolution failed.
C16_Witness ==
    /\ DefaultSearch
    /\ Len(ledgerDevices) = 2
    /\ holders = {<<DevicePath(2), Path_11>>}
    /\ call.pc = "done"
    /\ call.result.status = "PubkeyNotFound"
    /\ mon.searchCount = 2 * 1464

\* The transports a call holds: those openTransports returned to it, the one
\* it chose and the one it returned.
TransportsOfCall ==
    {call.transports[i] : i \in 1..Len(call.transports)}
    \cup {call.openedTransports[i] : i \in 1..Len(call.openedTransports)}
    \cup (IF call.transport.defined THEN {call.transport.value} ELSE {})
    \cup (IF call.result.transport.defined THEN {call.result.transport.value} ELSE {})

\* C17: over the calls of a process a transport is opened at most once for a
\* device path: the call that first needs the device opens it and puts it into
\* the cache, the cache keeps it, and every call is given that transport of
\* the cache; a device the cache had when a call began is not opened by it.
C17_TransportOpenedOncePerDevice ==
    /\ \A i, j \in 1..Len(opened) : opened[i].path = opened[j].path => i = j
    /\ DOMAIN cache = {opened[i].path : i \in 1..Len(opened)}
    /\ \A i \in 1..Len(opened) : cache[opened[i].path] = opened[i]
    /\ \A i \in 1..Len(OpenedByCall) : OpenedByCall[i].path \notin mon.cacheAtCall
    /\ call.pc = "awaitOpen" => call.pending.device \notin DOMAIN cache
    /\ \A transport \in TransportsOfCall :
           /\ transport.path \in DOMAIN cache
           /\ cache[transport.path] = transport

\* A search over two devices began when the cache had both and returned the
\* transport of the second device, the one opened by an earlier call.
C17_Witness ==
    /\ Len(ledgerDevices) = 2
    /\ mon.cacheAtCall = {DevicePath(1), DevicePath(2)}
    /\ Len(opened) = 2
    /\ mon.openedAtCall = 2
    /\ SearchFound
    /\ call.pc = "done"
    /\ SearchResult[1] = DevicePath(2)
    /\ call.result.transport.value = opened[2]

(***************************************************************************)
(* The exit of the process (specification SpecExit)                        *)
(***************************************************************************)

\* What a call of close on a transport does: it returns a promise that is
\* resolved, it throws, or it returns a promise that is rejected later.
CloseOutcomes == {"closes", "throws", "rejects"}

RECURSIVE closeOnExit(_, _, _, _)
\* The callback scheduleTransportCloseOnExit gives to scheduleOnExit, from its
\* k-th transport on: close is called in a try whose catch ignores the error
\* and goes to the next transport; what close returns is dropped.
closeOnExit(transports, outcomes, k, e) ==
    IF k > Len(transports) THEN e
    ELSE LET called == [e EXCEPT !.closed = Append(@, transports[k])]
         IN  closeOnExit(transports, outcomes, k + 1,
                 IF outcomes[k] = "throws"
                 THEN [called EXCEPT !.caught = @ \cup {transports[k]}]
                 ELSE IF outcomes[k] = "rejects"
                 THEN [called EXCEPT !.unhandled = @ \cup {transports[k]}]
                 ELSE called)

\* The process exits: the callbacks given to scheduleOnExit are to run.
ProcessExit ==
    /\ exit.status = "running"
    /\ exit' = [exit EXCEPT !.status = IF Len(exitHooks) = 0 THEN "exited" ELSE "exiting"]
    /\ UNCHANGED <<second, calc, urlParts, walletUrl, parsed, ledgerDevices, holders, cache,
                   exitHooks, opened, call, mon>>

\* The next callback given to scheduleOnExit runs.
ExitHookRuns ==
    /\ exit.status = "exiting"
    /\ LET transports == exitHooks[exit.hooksRun + 1]
       IN  \E outcomes \in [1..Len(transports) -> CloseOutcomes] :
               exit' = [closeOnExit(transports, outcomes, 1, exit) EXCEPT
                           !.hooksRun = @ + 1,
                           !.status = IF exit.hooksRun + 1 = Len(exitHooks)
                                      THEN "exited" ELSE "exiting"]
    /\ UNCHANGED <<second, calc, urlParts, walletUrl, parsed, ledgerDevices, holders, cache,
                   exitHooks, opened, call, mon>>

\* The calls of a process that opens devices, and its exit.
NextExit ==
    \/ \E derivedPath \in GivenPaths : CallGetSolanaApi(NoKey, derivedPath)
    \/ \E depth \in 0..MaxSearchDepth, wide \in 0..MaxSearchWide :
           CallSearchDerivedPathFromPubkey(Defined(TargetKey), Defined(depth), Defined(wide))
    \/ OpenReturns
    \/ SearchReturns
    \/ FinalReturns
    \/ ProcessExit
    \/ ExitHookRuns

SpecExit == Init /\ [][NextExit]_vars

(***************************************************************************)
(* Properties of the exit of the process (specification SpecExit)          *)
(***************************************************************************)

\* The places of a transport in the callbacks given to scheduleOnExit.
Registrations(transport) ==
    {place \in UNION {{<<h, k>> : k \in 1..Len(exitHooks[h])} : h \in 1..Len(exitHooks)} :
        exitHooks[place[1]][place[2]] = transport}

\* The calls of close on a transport.
CloseCalls(transport) == {k \in 1..Len(exit.closed) : exit.closed[k] = transport}

\* C18: every transport opened is given to scheduleOnExit once; when the
\* callbacks have run, close was called on every opened transport; a failure of
\* close, thrown by the call or reported later by the promise it returned, is
\* swallowed: nothing is thrown out of a callback, no failure is left without
\* a handler, and the transports after the failing one are closed.
C18_CloseFailuresSwallowed ==
    /\ \A i \in 1..Len(opened) : Cardinality(Registrations(opened[i])) = 1
    /\ ~exit.escaped
    /\ exit.unhandled = {}
    /\ exit.status = "exited"
       => \A i \in 1..Len(opened) : Cardinality(CloseCalls(opened[i])) = 1

(***************************************************************************)
(* Devices that are unplugged (specification SpecUnplug)                   *)
(***************************************************************************)

\* The devices are unplugged, between two calls or while a call is suspended:
\* getDevices() returns no device from now on, the cache and the calls keep
\* the transports that were opened.
DevicesUnplugged ==
    /\ exit.status = "running"
    /\ Len(ledgerDevices) > 0
    /\ ledgerDevices' = <<>>
    /\ UNCHANGED <<second, exit, calc, urlParts, walletUrl, parsed, holders, cache, exitHooks,
                   opened, call, mon>>

\* The connected devices and what they report: at most one <<device, path>>
\* reports the target key.
InitUnplug ==
    /\ urlParts = NoParts
    /\ walletUrl = <<>>
    /\ parsed = NotParsed
    /\ \E n \in 0..MaxDevices :
        /\ ledgerDevices = [i \in 1..n |-> DevicePath(i)]
        /\ holders \in {{}} \cup {{<<DevicePath(i), p>>} : i \in 1..n, p \in HolderPaths}
    /\ cache = <<>>
    /\ exitHooks = <<>>
    /\ opened = <<>>
    /\ call = IdleCall
    /\ mon = IdleMon
    /\ calc = NoCalc
    /\ exit = NotExiting
    /\ second = IdleCall

NextUnplug ==
    \/ \E pubkey \in {NoKey, Defined(TargetKey)}, derivedPath \in GivenPaths :
           CallGetSolanaApi(pubkey, derivedPath)
    \/ \E heuristicDepth \in SearchBounds(MaxSearchDepth),
          heuristicWide \in SearchBounds(MaxSearchWide) :
           CallSearchDerivedPathFromPubkey(Defined(TargetKey), heuristicDepth, heuristicWide)
    \/ OpenReturns
    \/ GivenReturns
    \/ SearchReturns
    \/ FinalReturns
    \/ DevicesUnplugged

SpecUnplug == InitUnplug /\ [][NextUnplug]_vars

(***************************************************************************)
(* Properties of the calls without a device (specification SpecUnplug)     *)
(***************************************************************************)

\* A call was made and an enumeration of the devices returned none to it:
\* getDevices() of getSolanaApi or of searchDerivedPathFromPubkey, also of the
\* search getSolanaApi makes after the given path missed.
NoDeviceCall ==
    /\ call.op \in {"getSolanaApi", "searchDerivedPathFromPubkey"}
    /\ call.ledgerDevices = <<>>

\* C19: when the enumeration returns no device, getSolanaApi and
\* searchDerivedPathFromPubkey fail with the no-device-found error before a
\* transport is opened or a device is asked for a key: no transport was
\* opened by the call, no device was asked, and the cache and the callbacks
\* of the exit are as they were when the call began.
C19_NoDeviceFailsFirst ==
    NoDeviceCall
    => /\ call.pc = "done"
       /\ call.result.status = "NoDeviceFound"
       /\ call.pending = NoRequest
       /\ call.transports = <<>>
       /\ Len(opened) = mon.openedAtCall
       /\ Len(exitHooks) = mon.openedAtCall
       /\ DOMAIN cache = mon.cacheAtCall
       /\ \A device \in DOMAIN cache :
              \E i \in 1..mon.openedAtCall : cache[device] = opened[i]
       /\ mon.given = <<>>
       /\ mon.final = <<>>
       /\ mon.searchCount = 0

(***************************************************************************)
(* The off-chain message codec (specification SpecOffchain)                *)
(*                                                                         *)
(* A message is the sequence of its characters, a character the number of  *)
(* its code point; a buffer is the sequence of its bytes.                  *)
(***************************************************************************)

\* The marker the buffer begins with: the byte 0xff and 'solana offchain'.
SIGNING_DOMAIN ==
    <<255, 115, 111, 108, 97, 110, 97, 32, 111, 102, 102, 99, 104, 97, 105, 110>>

\* The tags of the three content formats.
RESTRICTED_ASCII == 0

UTF8_SHORT == 1

UTF8_LONG == 2

\* The largest byte length of the content of the first two formats.
MAX_SHORT_BYTES == 1232

\* The UTF-8 bytes of a character.
Utf8OfCharacter(c) ==
    IF c < 128 THEN <<c>>
    ELSE IF c < 2048 THEN <<192 + (c \div 64), 128 + (c % 64)>>
    ELSE IF c < 65536
    THEN <<224 + (c \div 4096), 128 + ((c \div 64) % 64), 128 + (c % 64)>>
    ELSE <<240 + (c \div 262144), 128 + ((c \div 4096) % 64),
           128 + ((c \div 64) % 64), 128 + (c % 64)>>

RECURSIVE Utf8Between(_, _, _)
\* The UTF-8 bytes of the characters lo..hi of the text.
Utf8Between(text, lo, hi) ==
    IF lo > hi THEN <<>>
    ELSE IF lo = hi THEN Utf8OfCharacter(text[lo])
    ELSE LET mid == (lo + hi) \div 2
         IN  Utf8Between(text, lo, mid) \o Utf8Between(text, mid + 1, hi)

\* The UTF-8 bytes of the text.
Utf8Encode(text) == Utf8Between(text, 1, Len(text))

\* Every character of the text is of the printable ASCII range 0x20..0x7E.
isRestrictedAscii(text) == \A i \in 1..Len(text) : text[i] >= 32 /\ text[i] <= 126

\* A variant of contentFormat that measures the message in characters.
contentFormat_countsCharacters(message) ==
    IF isRestrictedAscii(message) /\ Len(message) <= MAX_SHORT_BYTES THEN RESTRICTED_ASCII
    ELSE IF Len(message) <= MAX_SHORT_BYTES THEN UTF8_SHORT
    ELSE UTF8_LONG

\* The selection of the content format: the first rule that matches.
contentFormat(message) ==
    IF isRestrictedAscii(message) /\ Len(Utf8Encode(message)) <= MAX_SHORT_BYTES
    THEN RESTRICTED_ASCII
    ELSE IF Len(Utf8Encode(message)) <= MAX_SHORT_BYTES THEN UTF8_SHORT
    ELSE UTF8_LONG

\* formatOffchainMessage(message, applicationDomain, signerPublicKey): the
\* marker, the version 0, the application domain, the tag of the format, the
\* content with its length before it (two bytes, the low one first), the
\* public key of the signatory.
formatOffchainMessage(message, applicationDomain, signerPublicKey) ==
    LET content == Utf8Encode(message)
    IN  SIGNING_DOMAIN
        \o <<0>>
        \o Base58Decode(applicationDomain)
        \o <<contentFormat(message)>>
        \o <<Len(content) % 256, Len(content) \div 256>>
        \o content
        \o signerPublicKey

\* Largest number of repetitions of a character in a message.
MaxRepeat == 1233

\* The numbers of repetitions: none, one, and those around a content of
\* MAX_SHORT_BYTES bytes for characters of 1 to 4 bytes.
RepeatCounts ==
    {0, 1} \cup UNION {{n \in ((MaxRepeat \div w) - 2)..((MaxRepeat \div w) + 1) : n <= MaxRepeat} :
                          w \in 1..4}

\* The repeated characters: ' ', 'a', '~', DEL, U+011B, U+1F600.
RepeatedCharacters == {32, 97, 126, 127, 283, 128512}

\* 'Hello, world!'
Text_Hello == <<72, 101, 108, 108, 111, 44, 32, 119, 111, 114, 108, 100, 33>>

\* 'Ahoj světe! \u{1F600}'
Text_Ahoj == <<65, 104, 111, 106, 32, 115, 118, 283, 116, 101, 33, 32, 128512>>

\* What follows the repeated character: nothing, the two texts, a line feed,
\* U+20AC.
MessageTails == {<<>>, Text_Hello, Text_Ahoj, <<10>>, <<8364>>}

APP_DOMAIN == [i \in 1..32 |-> "1"]

OTHER_DOMAIN == <<"T","o","k","e","n","k","e","g","Q","f","e","Z","y","i","N","w","A","J","b","N","b","G","K","P","F","X","C","W","u","B","v","f","9","S","s","6","2","3","V","Q","5","D","A">>

\* The calls of formatOffchainMessage.
FormatCalls ==
    {[fn |-> "formatOffchainMessage",
      args |-> [message |-> [i \in 1..count |-> character] \o tail,
                repeated |-> character, count |-> count, tail |-> tail,
                applicationDomain |-> domain, signerPublicKey |-> signer],
      status |-> "called", result |-> <<>>] :
        character \in RepeatedCharacters, count \in RepeatCounts, tail \in MessageTails,
        domain \in {APP_DOMAIN, OTHER_DOMAIN}, signer \in {TargetKey, OtherKey}}

\* formatOffchainMessage(message, applicationDomain, signerPublicKey)
FormatOffchainMessage ==
    /\ calc.fn = "formatOffchainMessage"
    /\ calc.status = "called"
    /\ calc' = [calc EXCEPT !.status = "returned",
                            !.result = formatOffchainMessage(calc.args.message,
                                                             calc.args.applicationDomain,
                                                             calc.args.signerPublicKey)]
    /\ UNCHANGED <<second, exit, urlParts, walletUrl, parsed, ledgerDevices, holders, cache, exitHooks,
                   opened, call, mon>>

InitOffchain ==
    /\ calc \in FormatCalls
    /\ urlParts = NoParts
    /\ walletUrl = <<>>
    /\ parsed = NotParsed
    /\ ledgerDevices = <<>>
    /\ holders = {}
    /\ cache = <<>>
    /\ exitHooks = <<>>
    /\ opened = <<>>
    /\ call = IdleCall
    /\ mon = IdleMon
    /\ exit = NotExiting
    /\ second = IdleCall

NextOffchain == FormatOffchainMessage

SpecOffchain == InitOffchain /\ [][NextOffchain]_vars

(***************************************************************************)
(* Properties of the off-chain message codec (specification SpecOffchain)  *)
(***************************************************************************)

FormatReturned == calc.fn = "formatOffchainMessage" /\ calc.status = "returned"

\* The number of bytes UTF-8 takes for a character.
Utf8Width(c) == IF c < 128 THEN 1 ELSE IF c < 2048 THEN 2 ELSE IF c < 65536 THEN 3 ELSE 4

RECURSIVE Utf8WidthOf(_)
Utf8WidthOf(text) == IF text = <<>> THEN 0 ELSE Utf8Width(Head(text)) + Utf8WidthOf(Tail(text))

\* The UTF-8 byte length of the message of the call.
MessageBytes == calc.args.count * Utf8Width(calc.args.repeated) + Utf8WidthOf(calc.args.tail)

\* Every character of the message of the call is in 0x20..0x7E.
MessagePrintable ==
    /\ calc.args.count > 0 => calc.args.repeated \in 32..126
    /\ \A i \in 1..Len(calc.args.tail) : calc.args.tail[i] \in 32..126

\* The byte at offset 49 of the buffer returned.
FormatTag == calc.result[50]

\* C20: formatOffchainMessage chooses one content format from the message
\* alone: tag 0 iff every character is in 0x20..0x7E and the UTF-8 length is at
\* most 1232 bytes, otherwise tag 1 iff the UTF-8 length is at most 1232
\* bytes, otherwise tag 2; the tag is the byte at offset 49, after the marker
\* of 16 bytes, the version byte 0 and the 32 bytes of the application domain.
C20_ContentFormatOfMessage ==
    FormatReturned
    => /\ Len(calc.result) >= 50
       /\ FormatTag \in {0, 1, 2}
       /\ FormatTag = 0 <=> (MessagePrintable /\ MessageBytes <= 1232)
       /\ FormatTag = 1 <=> (~MessagePrintable /\ MessageBytes <= 1232)
       /\ FormatTag = 2 <=> MessageBytes > 1232
       /\ SubSeq(calc.result, 1, 16) = SIGNING_DOMAIN
       /\ calc.result[17] = 0
       /\ SubSeq(calc.result, 18, 49) = NewPublicKey(calc.args.applicationDomain).bytes

\* A message of U+011B 616 times, 1232 bytes in 616 characters, was given tag 1.
C20_Witness ==
    /\ FormatReturned
    /\ calc.args.repeated = 283
    /\ calc.args.count = 616
    /\ calc.args.tail = <<>>
    /\ MessageBytes = 1232
    /\ FormatTag = 1

(***************************************************************************)
(* The off-chain signer and verifier (specification SpecSign)              *)
(*                                                                         *)
(* An Ed25519 signature is the pair of what only the holder of the secret  *)
(* key can produce it from: the public key of the key pair and the bytes   *)
(* signed.  A signature that was tampered with is a pair no key produced.  *)
(***************************************************************************)

\* The key pairs: Keypair.generate().
Keypairs == {[secretKey |-> 1, publicKey |-> TargetKey],
             [secretKey |-> 2, publicKey |-> OtherKey]}

\* The Ed25519 signature of the bytes with the secret key of the key pair.
Ed25519Sign(bytes, keypair) == [signer |-> keypair.publicKey, signed |-> bytes]

\* The Ed25519 verification of the signature of the bytes with the public key.
Ed25519Verify(bytes, signature, publicKey) ==
    /\ signature.signer = publicKey
    /\ signature.signed = bytes

\* signOffchainMessage(message, signingKey, applicationDomain): the signature
\* of the buffer of formatOffchainMessage, not of the message as given.
signOffchainMessage(message, keypair, applicationDomain) ==
    Ed25519Sign(formatOffchainMessage(message, applicationDomain, keypair.publicKey), keypair)

\* A variant of verifyOffchainMessage that builds the buffer for APP_DOMAIN
\* whatever the domain it is given.
verifyOffchainMessage_fixedDomain(message, signature, publicKey, applicationDomain) ==
    Ed25519Verify(formatOffchainMessage(message, APP_DOMAIN, publicKey), signature, publicKey)

\* verifyOffchainMessage(message, signature, publicKey, applicationDomain):
\* the buffer is built again from what is claimed and the signature is
\* checked against it; the answer is a boolean.
verifyOffchainMessage(message, signature, publicKey, applicationDomain) ==
    Ed25519Verify(formatOffchainMessage(message, applicationDomain, publicKey),
                  signature, publicKey)

\* 'Hello, Solana offchain!' and 'Hello, Solana offchain?'
Text_HelloSolana ==
    <<72, 101, 108, 108, 111, 44, 32, 83, 111, 108, 97, 110, 97, 32,
      111, 102, 102, 99, 104, 97, 105, 110, 33>>

Text_HelloSolanaAsked ==
    <<72, 101, 108, 108, 111, 44, 32, 83, 111, 108, 97, 110, 97, 32,
      111, 102, 102, 99, 104, 97, 105, 110, 63>>

\* The messages signed and verified: the texts of the tests, the empty
\* message, and messages that differ in one character only.
SignedMessages ==
    {<<>>, Text_Hello, Text_Ahoj, Text_HelloSolana, Text_HelloSolanaAsked, <<233>>, <<101>>}

\* The signature with its first signed byte changed.
Tampered(signature) ==
    [signature EXCEPT !.signed = <<(Head(@) + 1) % 256>> \o Tail(@)]

\* The signatures a verification is given: the signature of the call, the
\* signatures of changed inputs, and the signature tampered with.
GivenSignatures(signature) ==
    {signature, Tampered(signature)}
    \cup {signOffchainMessage(message, keypair, domain) :
            message \in {Text_Hello, <<>>}, keypair \in Keypairs,
            domain \in {APP_DOMAIN, OTHER_DOMAIN}}

\* The calls of signOffchainMessage.
SignCalls ==
    {[fn |-> "signOffchainMessage",
      args |-> [message |-> message, keypair |-> keypair, applicationDomain |-> domain],
      status |-> "called", result |-> <<>>] :
        message \in SignedMessages, keypair \in Keypairs,
        domain \in {APP_DOMAIN, OTHER_DOMAIN}}

\* signOffchainMessage(message, keypair, applicationDomain)
SignOffchainMessage ==
    /\ calc.fn = "signOffchainMessage"
    /\ calc.status = "called"
    /\ calc' = [calc EXCEPT !.status = "returned",
                            !.result = signOffchainMessage(calc.args.message,
                                                           calc.args.keypair,
                                                           calc.args.applicationDomain)]
    /\ UNCHANGED <<second, exit, urlParts, walletUrl, parsed, ledgerDevices, holders, cache, exitHooks,
                   opened, call, mon>>

\* verifyOffchainMessage(message, signature, publicKey, applicationDomain),
\* the signature being the one signOffchainMessage returned or another.
VerifyOffchainMessage ==
    /\ calc.fn = "signOffchainMessage"
    /\ calc.status = "returned"
    /\ \E message \in SignedMessages, signature \in GivenSignatures(calc.result),
          keypair \in Keypairs, domain \in {APP_DOMAIN, OTHER_DOMAIN} :
           calc' = [fn |-> "verifyOffchainMessage",
                    args |-> [message |-> message, signature |-> signature,
                              publicKey |-> keypair.publicKey,
                              applicationDomain |-> domain],
                    status |-> "returned",
                    result |-> verifyOffchainMessage(message, signature, keypair.publicKey,
                                                     domain),
                    signed |-> calc]
    /\ UNCHANGED <<second, exit, urlParts, walletUrl, parsed, ledgerDevices, holders, cache, exitHooks,
                   opened, call, mon>>

InitSign ==
    /\ calc \in SignCalls
    /\ urlParts = NoParts
    /\ walletUrl = <<>>
    /\ parsed = NotParsed
    /\ ledgerDevices = <<>>
    /\ holders = {}
    /\ cache = <<>>
    /\ exitHooks = <<>>
    /\ opened = <<>>
    /\ call = IdleCall
    /\ mon = IdleMon
    /\ exit = NotExiting
    /\ second = IdleCall

NextSign ==
    \/ SignOffchainMessage
    \/ VerifyOffchainMessage

SpecSign == InitSign /\ [][NextSign]_vars

(***************************************************************************)
(* Properties of the off-chain signer and verifier (specification SpecSign)*)
(***************************************************************************)

Verified == calc.fn = "verifyOffchainMessage" /\ calc.status = "returned"

\* Which of the four inputs of the verification are not those of the signing.
ChangedInputs ==
    (IF calc.args.message # calc.signed.args.message THEN {"message"} ELSE {})
    \cup (IF calc.args.signature # calc.signed.result THEN {"signature"} ELSE {})
    \cup (IF calc.args.publicKey # calc.signed.args.keypair.publicKey
          THEN {"publicKey"} ELSE {})
    \cup (IF calc.args.applicationDomain # calc.signed.args.applicationDomain
          THEN {"applicationDomain"} ELSE {})

\* C21: the signature signOffchainMessage returns for a message, a key pair
\* and a domain is verified true with that message, the public key of the key
\* pair and that domain; with any single one of message, signature, public key
\* and domain changed, verifyOffchainMessage returns false, as a value.
C21_SignThenVerify ==
    Verified
    => /\ calc.result \in BOOLEAN
       /\ ChangedInputs = {} => calc.result = TRUE
       /\ Cardinality(ChangedInputs) = 1 => calc.result = FALSE

\* The signature of 'Hello, Solana offchain!' was verified false for the
\* message 'Hello, Solana offchain?', nothing else being changed.
C21_Witness ==
    /\ Verified
    /\ calc.signed.args.message = Text_HelloSolana
    /\ calc.args.message = Text_HelloSolanaAsked
    /\ ChangedInputs = {"message"}
    /\ calc.result = FALSE

(***************************************************************************)
(* Errors of the devices and parseLedgerWallet (specification SpecCli)     *)
(***************************************************************************)

\* The fragments of messages the catch of parseLedgerWallet looks for.
INVALID_CHANNEL == <<"I","n","v","a","l","i","d"," ","c","h","a","n","n","e","l">>

READ_FROM_A_CLOSED_HID == <<"r","e","a","d"," ","f","r","o","m"," ","a"," ","c","l","o","s","e","d"," ","H","I","D">>

\* Messages of errors: with a fragment and nothing else, with a fragment
\* inside a longer text, and without a fragment.
Message_InvalidChannel0x3 == <<"I","n","v","a","l","i","d"," ","c","h","a","n","n","e","l"," ","(","0","x","3",")">>

Message_CannotReadClosedHid == <<"c","a","n","n","o","t"," ","r","e","a","d"," ","f","r","o","m"," ","a"," ","c","l","o","s","e","d"," ","H","I","D"," ","d","e","v","i","c","e">>

Message_Status == <<"s","t","a","t","u","s">>

Message_Locked == <<"l","o","c","k","e","d">>

Message_Timeout == <<"t","i","m","e","o","u","t">>

\* The errors a call of a device raises: TransportStatusError with the status
\* codes 0x6d02, 0x6808, 0x5515 and 0x6985, TransportError, LockedDeviceError
\* and Error.
DeviceErrors ==
    {[class |-> "TransportStatusError", statusCode |-> 27906, message |-> Message_Status],
     [class |-> "TransportStatusError", statusCode |-> 26632, message |-> Message_Status],
     [class |-> "TransportStatusError", statusCode |-> 21781, message |-> Message_Status],
     [class |-> "TransportStatusError", statusCode |-> 27013, message |-> Message_Status],
     [class |-> "TransportError", statusCode |-> 0, message |-> INVALID_CHANNEL],
     [class |-> "TransportError", statusCode |-> 0, message |-> Message_InvalidChannel0x3],
     [class |-> "TransportError", statusCode |-> 0, message |-> Message_Timeout],
     [class |-> "LockedDeviceError", statusCode |-> 0, message |-> Message_Locked],
     [class |-> "Error", statusCode |-> 0, message |-> READ_FROM_A_CLOSED_HID],
     [class |-> "Error", statusCode |-> 0, message |-> Message_CannotReadClosedHid],
     [class |-> "Error", statusCode |-> 0, message |-> Message_Timeout]}

\* A variant of parseLedgerWalletCatch that throws an error of its own.
parseLedgerWalletCatch_wraps(e) ==
    [logged |-> "FailedToConnect",
     thrown |-> [class |-> "Error", statusCode |-> 0, message |-> <<>>]]

\* The catch of parseLedgerWallet: what it logs for the error, and the error
\* it throws.
parseLedgerWalletCatch(e) ==
    [logged |->
        IF e.class = "TransportStatusError"
        THEN IF e.statusCode = 27906 THEN "SolanaApplicationNotOpened"
             ELSE IF e.statusCode = 26632 THEN "BlindSignaturesNotPermitted"
             ELSE IF e.statusCode = 21781 THEN "Locked"
             ELSE "nothing"
        ELSE IF e.class = "TransportError" /\ Includes(e.message, INVALID_CHANNEL)
        THEN "ManagerNotOpened"
        ELSE IF e.class = "LockedDeviceError" THEN "Locked"
        ELSE IF Includes(e.message, READ_FROM_A_CLOSED_HID) THEN "ClosedHid"
        ELSE "FailedToConnect",
     thrown |-> e]

\* A variant of DeviceCallThrows for a search that goes on to the next
\* candidate when a device raises an error.
DeviceCallThrows_searchGoesOn(c, e) ==
    IF c.pc = "awaitSearch" THEN SearchLoop(c, c.tIdx, c.cIdx + 1)
    ELSE FinishCall(c, [status |-> "DeviceError", transport |-> NoTransport,
                        derivedPath |-> <<>>, pubkey |-> NoKey, names |-> <<>>,
                        error |-> e, request |-> c.pending,
                        caught |-> parseLedgerWalletCatch(e)])

\* The device call the resolution awaits raises e: nothing of openTransports,
\* searchDerivedPathFromPubkey, getSolanaApi and LedgerWallet.instance catches
\* it, parseLedgerWallet catches it.
DeviceCallThrows(c, e) ==
    FinishCall(c, [status |-> "DeviceError", transport |-> NoTransport,
                   derivedPath |-> <<>>, pubkey |-> NoKey, names |-> <<>>,
                   error |-> e, request |-> c.pending,
                   caught |-> parseLedgerWalletCatch(e)])

\* TransportNodeHid.open(device.path) raises an error.
OpenThrows ==
    /\ exit.status = "running"
    /\ call.pc = "awaitOpen"
    /\ \E e \in DeviceErrors :
        /\ call' = DeviceCallThrows(call, e)
        /\ mon' = Observe([mon EXCEPT !.raised = Append(@, e)], call')
    /\ UNCHANGED <<second, exit, calc, urlParts, walletUrl, parsed, ledgerDevices, holders, cache,
                   exitHooks, opened>>

\* solanaApi.getAddress(derivedPath) raises an error in getPublicKey.
GetAddressThrows ==
    /\ exit.status = "running"
    /\ call.pc \in {"awaitGiven", "awaitSearch", "awaitFinal"}
    /\ \E e \in DeviceErrors :
        /\ call' = DeviceCallThrows(call, e)
        /\ mon' = Observe([mon EXCEPT !.raised = Append(@, e)], call')
    /\ UNCHANGED <<second, exit, calc, urlParts, walletUrl, parsed, ledgerDevices, holders, cache,
                   exitHooks, opened>>

\* The urls given to parseLedgerWallet: a ledger with and without a public
\* key, with and without the key 0/1.
CliUrlParts ==
    {[head |-> USB_LEDGER, id |-> i, form |-> "raw", raw |-> q,
      prefix |-> <<>>, segments |-> <<>>, space |-> "none"] :
        i \in {<<>>, <<"/">> \o PK_q9XW}, q \in {<<>>, <<"?","k","e","y","=","0","/","1">>}}

InitCli ==
    /\ urlParts \in CliUrlParts
    /\ walletUrl = UrlText(urlParts)
    /\ parsed = NotParsed
    /\ \E n \in 1..MaxDevices :
        /\ ledgerDevices = [i \in 1..n |-> DevicePath(i)]
        /\ holders \in {{}, {<<DevicePath(1), Path_0_1>>}, {<<DevicePath(n), Path_10_10_10>>}}
    /\ cache = <<>>
    /\ exitHooks = <<>>
    /\ opened = <<>>
    /\ call = IdleCall
    /\ mon = IdleMon
    /\ calc = NoCalc
    /\ exit = NotExiting
    /\ second = IdleCall

NextCli ==
    \/ LedgerWalletInstance
    \/ OpenReturns
    \/ GivenReturns
    \/ SearchReturns
    \/ FinalReturns
    \/ OpenThrows
    \/ GetAddressThrows

SpecCli == InitCli /\ [][NextCli]_vars

(***************************************************************************)
(* Properties of the errors of the devices (specification SpecCli)         *)
(***************************************************************************)

\* A device call of the resolution raised an error.
DeviceErrorRaised == mon.raised # <<>>

\* The requests for a key the resolution sent.
GetAddressCount == Len(mon.given) + mon.searchCount + Len(mon.final)

\* The last request for a key the resolution sent.
LastGetAddress ==
    IF Len(mon.final) > 0 THEN mon.final[Len(mon.final)]
    ELSE IF mon.searchCount > 0 THEN NestedRequest(mon.searchCount)
    ELSE mon.given[Len(mon.given)]

\* The resolution stopped at the device call that raised the error, and the
\* error thrown to the caller of parseLedgerWallet is that error.
StoppedAndRethrown ==
    /\ call.pc = "done"
    /\ call.result.status = "DeviceError"
    /\ mon.raised = <<call.result.error>>
    /\ call.pending = NoRequest
    /\ call.result.transport = NoTransport
    /\ call.result.request.op = "open"
       => /\ call.result.request.device \notin DOMAIN cache
          /\ GetAddressCount = 0
    /\ call.result.request.op = "getAddress"
       => /\ GetAddressCount > 0
          /\ LastGetAddress = <<call.result.request.device, call.result.request.path>>
    /\ call.result.caught.thrown = call.result.error

\* C22 as stated: an error raised by open or getAddress stops the resolution
\* at that point and reaches the caller of parseLedgerWallet as the same
\* error; it is logged and thrown again unmodified.
C22_DeviceErrorLoggedAndRethrown ==
    DeviceErrorRaised
    => /\ StoppedAndRethrown
       /\ call.result.caught.logged # "nothing"

\* C22, amended: the error stops the resolution at that point and reaches the
\* caller of parseLedgerWallet as the same error; it is logged, except a
\* TransportStatusError whose status code is none of 0x6d02, 0x6808 and
\* 0x5515, for which nothing is logged.
C22_DeviceErrorRethrown ==
    DeviceErrorRaised
    => /\ StoppedAndRethrown
       /\ call.result.caught.logged = "nothing"
          <=> /\ call.result.error.class = "TransportStatusError"
              /\ call.result.error.statusCode \notin {27906, 26632, 21781}

\* The second device raised an error in the search, after the first device
\* was asked about every candidate: the search stopped there.
C22_Witness ==
    /\ DeviceErrorRaised
    /\ Len(ledgerDevices) = 2
    /\ call.result.request.op = "getAddress"
    /\ call.result.request.device = DevicePath(2)
    /\ mon.searchCount > Len(CandidatePaths)
    /\ mon.searchCount < 2 * Len(CandidatePaths)
    /\ call.result.caught.thrown.class = "LockedDeviceError"

\* The request for a key that is outstanding, if any.
Outstanding ==
    IF call.pending.op = "getAddress"
    THEN {<<call.pending.device, call.pending.path>>}
    ELSE {}

\* A step of a resolution sends at most one request for a key, and sends it
\* only when the request sent before it was answered in that step.
OneRequestAtATime ==
    (call.pc # "idle" /\ GetAddressCount' # GetAddressCount)
    => /\ GetAddressCount' = GetAddressCount + 1
       /\ call'.pending.op = "getAddress"
       /\ GetAddressCount > 0 => Outstanding = {LastGetAddress}

\* The request the search is waiting for is the request to its tIdx-th device
\* about its cIdx-th candidate.
SearchingAt ==
    call.pc = "awaitSearch"
    => /\ call.tIdx \in 1..Len(ledgerDevices)
       /\ call.cIdx \in 1..Len(CandidatePaths)
       /\ call.pending.device = ledgerDevices[call.tIdx]
       /\ call.pending.path = CandidatePaths[call.cIdx]
       /\ mon.searchCount = (call.tIdx - 1) * Len(CandidatePaths) + call.cIdx

\* The search asks a device about the next candidate, and goes to the next
\* device only after it asked the device about the last candidate; it begins
\* the next device with the first candidate.
DeviceAfterDevice ==
    (call.pc = "awaitSearch" /\ call'.pc = "awaitSearch")
    => \/ /\ call'.tIdx = call.tIdx
          /\ call'.cIdx = call.cIdx + 1
       \/ /\ call'.tIdx = call.tIdx + 1
          /\ call.cIdx = Len(CandidatePaths)
          /\ call'.cIdx = 1

\* The loop over the given path asks the devices one after the other.
GivenAfterGiven ==
    (Len(mon.given) > 0 /\ Len(mon.given') = Len(mon.given) + 1)
    => /\ mon.given'[Len(mon.given')][1] = ledgerDevices[Len(mon.given) + 1]
       /\ mon.given[Len(mon.given)][1] = ledgerDevices[Len(mon.given)]

\* C23: within a resolution the requests to the devices are strictly
\* sequential: at most one request for a key is outstanding, a request is sent
\* only when the one before it was answered, and a device is asked about all
\* its candidates before the next device is asked.
C23_RequestsSequential ==
    /\ [](Cardinality(Outstanding) <= 1)
    /\ [](call.pc \in {"awaitGiven", "awaitSearch", "awaitFinal"}
          => Outstanding = {LastGetAddress})
    /\ [](mon.searchInOrder)
    /\ []SearchingAt
    /\ [][OneRequestAtATime /\ DeviceAfterDevice /\ GivenAfterGiven]_vars

\* The search is asking the second of two devices about its first candidate,
\* the first device having been asked about every candidate.
C23_Witness ==
    /\ call.pc = "awaitSearch"
    /\ Len(ledgerDevices) = 2
    /\ call.pending.device = DevicePath(2)
    /\ mon.searchCount = Len(CandidatePaths) + 1
    /\ Len(mon.given) = 2

(***************************************************************************)
(* What a resolution returns (specification Spec)                          *)
(***************************************************************************)

\* getSolanaApi, called with a target public key, returned.
ResolvedWithTarget ==
    /\ Resolving
    /\ call.pc = "done"
    /\ call.result.status = "ok"

\* The returned path is a path of the search space derived from the given path.
ReturnedPathIsCandidate ==
    \E i \in 1..Len(CandidatePaths) : CandidatePaths[i] = call.result.derivedPath

\* C24: when getSolanaApi with a target public key returns, the returned
\* public key is the target, it is the key the device of the returned
\* transport reports at the returned path, the returned transport is the open
\* transport of a connected device, and the returned path is the given path
\* or the path of a candidate suffix of the search space derived from it.
C24_ReturnedKeyDevicePath ==
    ResolvedWithTarget
    => /\ call.result.pubkey.defined
       /\ call.result.transport.defined
       /\ call.result.pubkey.value = call.pubkey.value
       /\ call.result.pubkey.value = TargetKey
       /\ call.result.pubkey.value
              = getPublicKey(call.result.transport.value.path, call.result.derivedPath)
       /\ <<call.result.transport.value.path, call.result.derivedPath>> \in holders
       /\ \E i \in 1..Len(ledgerDevices) :
              /\ ledgerDevices[i] = call.result.transport.value.path
              /\ cache[ledgerDevices[i]] = call.result.transport.value
       /\ \/ call.result.derivedPath = call.argPath
          \/ ReturnedPathIsCandidate

\* The search found the target at the second device, at a path other than
\* the given one.
C24_Witness ==
    /\ ResolvedWithTarget
    /\ call.result.transport.value.path = DevicePath(2)
    /\ call.result.derivedPath # call.argPath
    /\ call.result.derivedPath = Path_10_10_10
    /\ mon.searchCount > Len(CandidatePaths)

(***************************************************************************)
(* Two calls that overlap (specification SpecOverlap)                      *)
(*                                                                         *)
(* The functions are async: a call runs up to an await and is suspended,   *)
(* and another call may begin and run before the awaited promise is        *)
(* settled.  Both calls read and write IN_LIB_TRANSPORT_CACHE.             *)
(***************************************************************************)

\* LedgerWallet.getSolanaApi(pubkey, derivedPath) called while the running
\* call is suspended at an await, up to its first await.
SecondCallGetSolanaApi(pubkey, derivedPath) ==
    /\ exit.status = "running"
    /\ call.pc \notin {"idle", "done"}
    /\ second.pc \in {"idle", "done"}
    /\ second' = getSolanaApi([IdleCall EXCEPT !.op = "getSolanaApi", !.pubkey = pubkey,
                                               !.argPath = derivedPath,
                                               !.derivedPath = derivedPath])
    /\ UNCHANGED <<exit, calc, urlParts, walletUrl, parsed, ledgerDevices, holders, cache,
                   exitHooks, opened, call, mon>>

\* searchDerivedPathFromPubkey(pubkey, logger, heuristicDepth, heuristicWide)
\* called while the running call is suspended at an await, up to its first await.
SecondCallSearchDerivedPathFromPubkey(pubkey, heuristicDepth, heuristicWide) ==
    /\ exit.status = "running"
    /\ call.pc \notin {"idle", "done"}
    /\ second.pc \in {"idle", "done"}
    /\ second' = StartSearch([IdleCall EXCEPT !.op = "searchDerivedPathFromPubkey",
                                              !.pubkey = pubkey,
                                              !.argDepth = heuristicDepth,
                                              !.argWide = heuristicWide],
                             heuristicDepth, heuristicWide)
    /\ UNCHANGED <<exit, calc, urlParts, walletUrl, parsed, ledgerDevices, holders, cache,
                   exitHooks, opened, call, mon>>

\* TransportNodeHid.open(device.path) returns in openTransports of the second
\* call: the transport is scheduled for close, cached and pushed, and the
\* loop goes on with the cache as it is now.
SecondOpenReturns ==
    /\ exit.status = "running"
    /\ second.pc = "awaitOpen"
    /\ LET transport == [path |-> second.pending.device, id |-> Len(opened) + 1]
           cacheNow == [d \in DOMAIN cache \cup {transport.path} |->
                           IF d = transport.path THEN transport ELSE cache[d]]
       IN  /\ opened' = Append(opened, transport)
           /\ exitHooks' = scheduleTransportCloseOnExit(exitHooks, <<transport>>)
           /\ cache' = cacheNow
           /\ second' = ContinueOpen([second EXCEPT !.transports = Append(@, transport)],
                                     cacheNow)
    /\ UNCHANGED <<exit, calc, urlParts, walletUrl, parsed, ledgerDevices, holders, call, mon>>

\* getPublicKey returns to the second call: in the loop of getSolanaApi over
\* the opened transports, in the loops of searchDerivedPathFromPubkey, or in
\* the last statement of getSolanaApi.
SecondGetAddressReturns ==
    /\ exit.status = "running"
    /\ second.pc \in {"awaitGiven", "awaitSearch", "awaitFinal"}
    /\ LET ledgerPubkey == getPublicKey(second.pending.device, second.pending.path)
       IN  second' =
               IF second.pc = "awaitGiven" THEN GivenStep(second, ledgerPubkey)
               ELSE IF second.pc = "awaitSearch" THEN SearchStep(second, ledgerPubkey)
               ELSE FinishCall(second,
                        [status |-> "ok", transport |-> second.transport,
                         derivedPath |-> second.derivedPath,
                         pubkey |-> Defined(ledgerPubkey), names |-> <<>>])
    /\ UNCHANGED <<exit, calc, urlParts, walletUrl, parsed, ledgerDevices, holders, cache,
                   exitHooks, opened, call, mon>>

\* The derivation paths given to the calls that overlap.
OverlapPaths == {SOLANA_BIP44_BASE_PATH, Path_0_1}

\* The connected devices; the target public key is reported by no device or
\* by one, at one of the paths given to the calls.
InitOverlap ==
    /\ urlParts = NoParts
    /\ walletUrl = <<>>
    /\ parsed = NotParsed
    /\ \E n \in 1..MaxDevices :
        /\ ledgerDevices = [i \in 1..n |-> DevicePath(i)]
        /\ holders \in {{}} \cup {{<<DevicePath(i), p>>} : i \in 1..n, p \in OverlapPaths}
    /\ cache = <<>>
    /\ exitHooks = <<>>
    /\ opened = <<>>
    /\ call = IdleCall
    /\ mon = IdleMon
    /\ calc = NoCalc
    /\ exit = NotExiting
    /\ second = IdleCall

\* The calls of getSolanaApi made here: without a public key, or with the
\* target where a device reports it at the given path.
OverlapArguments(pubkey, derivedPath) ==
    pubkey.defined => \E i \in 1..Len(ledgerDevices) : <<ledgerDevices[i], derivedPath>> \in holders

NextOverlap ==
    \/ \E pubkey \in {NoKey, Defined(TargetKey)}, derivedPath \in OverlapPaths :
           OverlapArguments(pubkey, derivedPath) /\ CallGetSolanaApi(pubkey, derivedPath)
    \/ \E heuristicDepth \in SearchBounds(MaxSearchDepth),
          heuristicWide \in SearchBounds(MaxSearchWide) :
           /\ heuristicDepth.defined
           /\ heuristicWide.defined
           /\ CallSearchDerivedPathFromPubkey(Defined(TargetKey), heuristicDepth, heuristicWide)
    \/ OpenReturns
    \/ GivenReturns
    \/ SearchReturns
    \/ FinalReturns
    \/ \E pubkey \in {NoKey, Defined(TargetKey)}, derivedPath \in OverlapPaths :
           OverlapArguments(pubkey, derivedPath) /\ SecondCallGetSolanaApi(pubkey, derivedPath)
    \/ \E heuristicDepth \in SearchBounds(MaxSearchDepth),
          heuristicWide \in SearchBounds(MaxSearchWide) :
           /\ heuristicDepth.defined
           /\ heuristicWide.defined
           /\ SecondCallSearchDerivedPathFromPubkey(Defined(TargetKey), heuristicDepth,
                                                    heuristicWide)
    \/ SecondOpenReturns
    \/ SecondGetAddressReturns

SpecOverlap == InitOverlap /\ [][NextOverlap]_vars

\* The transports a call holds: those openTransports pushed or returned to
\* it, the one it chose, the one it returned.
TransportsHeldBy(c) ==
    {c.transports[i] : i \in DOMAIN c.transports}
    \cup {c.openedTransports[i] : i \in DOMAIN c.openedTransports}
    \cup (IF c.transport.defined THEN {c.transport.value} ELSE {})
    \cup (IF c.result.transport.defined THEN {c.result.transport.value} ELSE {})

\* The callbacks of scheduleOnExit that close a transport of the device.
HooksOf(device) ==
    {k \in DOMAIN exitHooks : \E i \in DOMAIN exitHooks[k] : exitHooks[k][i].path = device}

\* The two calls overlapped: the second began while the first was suspended.
Overlapped == second.op # "none"

\* C25: also when two calls overlap, every device path is opened at most
\* once, the cache holds for it the one transport every caller uses, and
\* exactly one close-on-exit callback is registered for it.
C25_OverlappingCallsOpenOnce ==
    /\ \A i, j \in DOMAIN opened : opened[i].path = opened[j].path => i = j
    /\ \A d \in DOMAIN cache : Cardinality(HooksOf(d)) = 1
    /\ \A t \in TransportsHeldBy(call) \cup TransportsHeldBy(second) :
           t.path \in DOMAIN cache /\ cache[t.path] = t

\* The second call began while the first awaited the opening of a device,
\* and both calls opened it.
C25_OpenedTwice ==
    /\ Overlapped
    /\ \E i, j \in DOMAIN opened : i # j /\ opened[i].path = opened[j].path

====
